---- MODULE Spec2Model ----
(***************************************************************************)
(* A model of the cluster lifecycle orchestrator of onedotzero             *)
(* (src/scripts/cluster.py): one invocation of the command-line tool, from *)
(* main() through the selected operation, with every external command an   *)
(* input (exit code, output) drawn from a small set.                       *)
(***************************************************************************)
EXTENDS Integers, Sequences, FiniteSets, TLC

VARIABLES
    command,            \* the sub-command selected on the command line
    remote,             \* args.remote, the global remote/local switch
    test_remote,        \* args.test_remote
    node_index,         \* args.node_index (compute ssh / compute cmd)
    version,            \* args.version (hardware set)
    proc_in,            \* the process result handed to a function applied alone
    check_in,           \* the check argument handed to run_command applied alone
    versionFile,        \* content of .hardware_version, or NoFile
    profileFiles,       \* versions for which hardware_vars/<v>.yml exists
    varsFile,           \* the dictionary in ansible/vars/main.yml
    inventory_before,   \* content of ansible/inventory.dyn at startup
    last_set,           \* the version written by the latest hardware set
    HARDWARE_CONFIG,    \* the process-wide profile
    inventory,          \* content of ansible/inventory.dyn
    synced,             \* the startup rsync has completed
    pc,                 \* position in the running function
    stack,              \* return positions of the callers
    steps,              \* operations cluster_configure has started, in order
    cmds,               \* commands dispatched so far, probes excluded
    last,               \* result of the latest command in cmds
    probes,             \* how the probe commands were dispatched
    probe_proc,         \* the process result of the latest probe command
    i,                  \* compute_wait's loop variable
    nprobes,            \* probes issued by the current compute_wait call
    nsleeps,            \* sleeps of the current compute_wait call
    nfail,              \* probes of the current call that were not all-UP
    waitCalls,          \* number of compute_wait calls so far
    all_statuses,       \* the map returned by the latest probe
    initStatuses,       \* the map returned by cluster_configure's probe
    compute_nodes_up,   \* cluster_configure's shutdown decision
    cc_ip,              \* index of cluster_configure's next call
    printed,            \* what cluster_status / hardware_get printed
    attemptMsg,         \* the latest "Attempt i/100 failed" line
    fatalMsg,           \* the diagnostic logged before sys.exit
    broadcast_address,  \* value returned by get_broadcast_address
    retval,             \* return value of the function that returned last
    exc,                \* the exception that ended the process, if any
    exitCode            \* the process's exit status, Running until it ends

vars == <<command, remote, test_remote, node_index, version, proc_in, check_in,
          versionFile, profileFiles, varsFile, inventory_before, last_set,
          HARDWARE_CONFIG, inventory,
          synced, pc, stack, steps,
          cmds, last, probes, probe_proc, i, nprobes, nsleeps, nfail, waitCalls,
          all_statuses, initStatuses, compute_nodes_up, cc_ip, printed,
          attemptMsg, fatalMsg,
          broadcast_address, retval, exc, exitCode>>

---------------------------------------------------------------------------
(* Bounds of the model *)

MaxNodes == 2
MaxRc == 1

(* Program constants *)

MaxAttempts == 100

ANSIBLE_TESTING_HOST == "odz_test"

---------------------------------------------------------------------------
(* Values *)

NoFile == "<absent>"
NoOverride == "<none>"
NoVal == "None"
\* compute_wait's `return 0` (return values are kept as text)
RetZero == "0"
LocalHost == "<local>"
Running == 0 - 1
ExitCodes == 0..MaxRc

\* The profile's node list: each node has a name, an address template and a
\* hardware address.
NodeNames == <<"node1", "node2", "node3", "node4">>
NodeSuffix == <<".11", ".12", ".13", ".14">>
NodeMacs == <<"aa:01", "aa:02", "aa:03", "aa:04">>
NodeOf(k) ==
    [name |-> NodeNames[k],
     ip   |-> <<[kind |-> "var", text |-> "compute_subnet"],
                [kind |-> "lit", text |-> NodeSuffix[k]]>>,
     mac  |-> NodeMacs[k]]
NodeList(n) == [k \in 1..n |-> NodeOf(k)]
Profiles == {[compute_nodes |-> NodeList(n)] : n \in 0..MaxNodes}

\* A host name no profile configures.
Ghost == "ghost"

Versions == {"0.1", "0.2"}

\* f.read().strip(): the content of the selector file without the newline
\* an editor leaves at its end
strip(content) ==
    IF \E v \in Versions : content = v \o "\n"
    THEN CHOOSE v \in Versions : content = v \o "\n"
    ELSE content

\* ansible/vars/main.yml
ansible_vars == [v \in {"compute_subnet"} |-> "10.0.0"]

\* HARDWARE_CONFIG = None: no profile is loaded.  (The compute_nodes field
\* only lets a property that reads the node list be evaluated in every state.)
NoConfig == [none |-> TRUE, compute_nodes |-> <<>>]
NoExc == [type |-> "none", returncode |-> 0, cmd |-> ""]
NoMsg == [kind |-> "none", attempt |-> 0, names |-> {}]
NoLast == [cmd |-> "", returncode |-> 0, stdout |-> <<>>, check |-> FALSE,
           raised |-> FALSE]
NoStatuses == [h \in {} |-> "DOWN"]
NoResult == [returncode |-> 0, stdout |-> <<>>]
NoProc == [returncode |-> 0, stdout |-> <<>>]

Names(nodes) == {nodes[k].name : k \in 1..Len(nodes)}

---------------------------------------------------------------------------
(* The command-line surface: main()'s subparsers and their func defaults *)

NoCommand == "<help>"

Commands ==
    {NoCommand, "configure", "doc",
     "compute status", "compute up", "compute down", "compute restart",
     "compute wait", "compute configure", "compute test", "compute ssh",
     "compute cmd",
     "control configure", "control test", "control build_image",
     "control cmd", "control ssh", "control clean_image",
     "ansible testing_configure", "ansible lint", "ansible test",
     "hardware set", "hardware get"}

\* args.command: the top-level verb
TopLevel(c) ==
    CASE c \in {"configure", "doc", NoCommand} -> c
      [] c \in {"compute status", "compute up", "compute down",
                "compute restart", "compute wait", "compute configure",
                "compute test", "compute ssh", "compute cmd"} -> "compute"
      [] c \in {"control configure", "control test", "control build_image",
                "control cmd", "control ssh", "control clean_image"} -> "control"
      [] c \in {"ansible testing_configure", "ansible lint", "ansible test"}
                -> "ansible"
      [] OTHER -> "hardware"

\* args.func
FuncOf(c) ==
    CASE c = "configure" -> "cluster_configure"
      [] c = "doc" -> "cluster_doc"
      [] c = "compute status" -> "cluster_status"
      [] c = "compute up" -> "compute_up"
      [] c = "compute down" -> "compute_down"
      [] c = "compute restart" -> "compute_restart"
      [] c = "compute wait" -> "compute_wait"
      [] c = "compute configure" -> "compute_configure"
      [] c = "compute test" -> "compute_test"
      [] c = "compute ssh" -> "compute_ssh"
      [] c = "compute cmd" -> "compute_cmd"
      [] c = "control configure" -> "control_configure"
      [] c = "control test" -> "control_test"
      [] c = "control build_image" -> "control_build_image"
      [] c = "control cmd" -> "control_cmd"
      [] c = "control ssh" -> "control_ssh"
      [] c = "control clean_image" -> "control_clean_image"
      [] c = "ansible testing_configure" -> "ansible_testing_configure"
      [] c = "ansible lint" -> "ansible_lint"
      [] c = "ansible test" -> "ansible_test"
      [] c = "hardware set" -> "hardware_set"
      [] OTHER -> "hardware_get"

---------------------------------------------------------------------------
(* Initial state: the command line and the files on disk *)

ProfileFileSets ==
    {[v \in {} |-> NoConfig]} \cup {[v \in {"0.1"} |-> p] : p \in Profiles}

\* What every run starts from, whatever its inputs.
InitRest ==
    /\ last_set = NoFile
    /\ inventory = inventory_before
    /\ synced = FALSE
    /\ stack = <<>>
    /\ steps = <<>>
    /\ cmds = <<>>
    /\ last = NoLast
    /\ probes = {}
    /\ probe_proc = NoProc
    /\ i = 0
    /\ nprobes = 0
    /\ nsleeps = 0
    /\ nfail = 0
    /\ waitCalls = 0
    /\ all_statuses = NoStatuses
    /\ initStatuses = NoStatuses
    /\ compute_nodes_up = FALSE
    /\ cc_ip = 0
    /\ printed = <<>>
    /\ attemptMsg = NoMsg
    /\ fatalMsg = NoMsg
    /\ broadcast_address = NoVal
    /\ retval = NoVal
    /\ exc = NoExc
    /\ exitCode = Running

Init ==
    /\ command \in Commands
    /\ remote \in BOOLEAN
    /\ test_remote \in (IF command = "ansible test" THEN BOOLEAN ELSE {FALSE})
    /\ node_index \in (IF command \in {"compute ssh", "compute cmd"}
                       THEN -1..MaxNodes ELSE {0})
    /\ version \in (IF command = "hardware set" THEN Versions ELSE {"0.1"})
    /\ proc_in = NoResult
    /\ check_in = TRUE
    /\ versionFile \in {NoFile} \cup Versions
    /\ profileFiles \in ProfileFileSets
    /\ varsFile = ansible_vars
    /\ inventory_before = <<>>
    /\ HARDWARE_CONFIG = NoConfig
    /\ pc = "main"
    /\ InitRest

argVars == <<command, remote, test_remote, node_index, version, proc_in,
             check_in>>
fileVars == <<versionFile, profileFiles, varsFile, inventory_before, last_set>>
waitVars == <<i, nprobes, nsleeps, nfail, waitCalls, attemptMsg>>
probeVars == <<probes, probe_proc, all_statuses>>
ccVars == <<steps, initStatuses, compute_nodes_up, cc_ip>>
cmdVars == <<cmds, last>>
endVars == <<exc, exitCode, fatalMsg>>

flowVars == <<pc, stack, retval, exc, exitCode, fatalMsg>>

---------------------------------------------------------------------------
(* Control flow: calls, returns, uncaught exceptions and sys.exit *)

Goto(label) ==
    /\ pc' = label
    /\ UNCHANGED <<stack, retval, exc, exitCode, fatalMsg>>

Call(func, resume) ==
    /\ pc' = func
    /\ stack' = <<resume>> \o stack
    /\ UNCHANGED <<retval, exc, exitCode, fatalMsg>>

Return(value) ==
    /\ pc' = Head(stack)
    /\ stack' = Tail(stack)
    /\ retval' = value
    /\ UNCHANGED <<exc, exitCode, fatalMsg>>

\* An exception no frame handles: the interpreter prints the traceback and
\* the process ends with status 1.
Uncaught(type, returncode, cmd) ==
    /\ pc' = "exit"
    /\ exc' = [type |-> type, returncode |-> returncode, cmd |-> cmd]
    /\ exitCode' = 1
    /\ UNCHANGED <<stack, retval, fatalMsg>>

\* logging.error(...) followed by sys.exit(code)
SysExit(code, kind, names) ==
    /\ pc' = "exit"
    /\ exitCode' = code
    /\ fatalMsg' = [kind |-> kind, attempt |-> 0, names |-> names]
    /\ UNCHANGED <<stack, retval, exc>>

---------------------------------------------------------------------------
(* run_command *)

control_host(cfg) ==
    IF "control_host" \in DOMAIN cfg THEN cfg.control_host ELSE "control"

\* The outcomes an external process can have.
Results(outputs) == [returncode : ExitCodes, stdout : outputs]
Plain == Results({<<>>})

\* A variant that raises on a non-zero exit whatever `check` says.
run_command_AlwaysChecks(cmd, rem, check, remote_host_override, result) ==
    [cmd        |-> cmd,
     via        |-> IF rem THEN "ssh" ELSE "local",
     host       |-> IF rem THEN control_host(HARDWARE_CONFIG) ELSE LocalHost,
     check      |-> check,
     returncode |-> result.returncode,
     stdout     |-> result.stdout,
     raised     |-> result.returncode # 0]

\* What run_command dispatches and what it hands back: `raised` says that it
\* ends by raising CalledProcessError(returncode, cmd_to_run).
run_command(cmd, rem, check, remote_host_override, result) ==
    LET remote_host == IF remote_host_override # NoOverride
                       THEN remote_host_override
                       ELSE control_host(HARDWARE_CONFIG)
    IN  [cmd        |-> cmd,
         via        |-> IF rem THEN "ssh" ELSE "local",
         host       |-> IF rem THEN remote_host ELSE LocalHost,
         check      |-> check,
         returncode |-> result.returncode,
         stdout     |-> result.stdout,
         raised     |-> check /\ result.returncode # 0]

\* The record of a dispatched command.
Log(func, proc) ==
    /\ cmds' = Append(cmds, [func |-> func, cmd |-> proc.cmd,
                             via |-> proc.via, host |-> proc.host])
    /\ last' = [cmd |-> proc.cmd, returncode |-> proc.returncode,
                stdout |-> proc.stdout, check |-> proc.check,
                raised |-> proc.raised]

\* A variant that ignores the failure of the command.
RunAndReturn_Swallow(func, proc) ==
    /\ Log(func, proc)
    /\ Return(NoVal)

\* A function whose body is one checked command: the exception propagates,
\* success returns None.
RunAndReturn(func, proc) ==
    /\ Log(func, proc)
    /\ IF proc.raised
       THEN Uncaught("CalledProcessError", proc.returncode, proc.cmd)
       ELSE Return(NoVal)

---------------------------------------------------------------------------
(* main: startup *)

\* A variant that calls the function without loading anything.
main_SkipLoad ==
    /\ pc = "main"
    /\ IF command = NoCommand
       THEN /\ pc' = "exit"
            /\ exitCode' = 0
            /\ UNCHANGED <<stack, retval, exc, fatalMsg>>
       ELSE Goto("main_func")
    /\ UNCHANGED <<argVars, fileVars, HARDWARE_CONFIG, inventory, synced,
                   cmdVars, probeVars, waitVars, ccVars, printed,
                   broadcast_address>>

main ==
    /\ pc = "main"
    /\ IF command = NoCommand
       THEN /\ pc' = "exit"
            /\ exitCode' = 0
            /\ UNCHANGED <<stack, retval, exc, fatalMsg>>
       ELSE IF TopLevel(command) \notin {"doc", "hardware"}
            THEN Goto("load_hardware_config")
            ELSE Goto("main_func")
    /\ UNCHANGED <<argVars, fileVars, HARDWARE_CONFIG, inventory, synced,
                   cmdVars, probeVars, waitVars, ccVars, printed,
                   broadcast_address>>

\* A variant that goes on without a profile when a file is missing.
load_hardware_config_NoExit ==
    /\ pc = "load_hardware_config"
    /\ IF versionFile = NoFile \/ versionFile \notin DOMAIN profileFiles
       THEN UNCHANGED HARDWARE_CONFIG
       ELSE HARDWARE_CONFIG' = profileFiles[versionFile]
    /\ Goto("generate_inventory")
    /\ UNCHANGED <<argVars, fileVars, inventory, synced, cmdVars, probeVars,
                   waitVars, ccVars, printed, broadcast_address>>

\* get_hardware_version() and load_hardware_config(version)
load_hardware_config ==
    /\ pc = "load_hardware_config"
    /\ IF versionFile = NoFile
       THEN /\ SysExit(1, "ConfigMissing", {})
            /\ UNCHANGED HARDWARE_CONFIG
       ELSE IF strip(versionFile) \notin DOMAIN profileFiles
            THEN /\ SysExit(1, "ConfigMissing", {})
                 /\ UNCHANGED HARDWARE_CONFIG
            ELSE /\ HARDWARE_CONFIG' = profileFiles[strip(versionFile)]
                 /\ Goto("generate_inventory")
    /\ UNCHANGED <<argVars, fileVars, inventory, synced, cmdVars, probeVars,
                   waitVars, ccVars, printed, broadcast_address>>

\* jinja2's default Undefined renders as the empty string.
RenderPart(part, variables) ==
    IF part.kind = "lit" THEN part.text
    ELSE IF part.text \in DOMAIN variables THEN variables[part.text] ELSE ""

RECURSIVE Render(_, _)
Render(template, variables) ==
    IF template = <<>> THEN ""
    ELSE RenderPart(Head(template), variables) \o Render(Tail(template), variables)

\* A variant that lists the nodes last to first.
inventory_lines_Reversed(cfg, variables) ==
    LET n == Len(cfg.compute_nodes) IN
    [k \in 1..n |->
        <<cfg.compute_nodes[n + 1 - k].name,
          "ansible_host=" \o Render(cfg.compute_nodes[n + 1 - k].ip, variables)>>]

\* f"{node['name']} ansible_host={rendered_ip}" for every node, in list
\* order; a line of text is the tuple of its blank-separated words.
inventory_lines(cfg, variables) ==
    [k \in 1..Len(cfg.compute_nodes) |->
        <<cfg.compute_nodes[k].name,
          "ansible_host=" \o Render(cfg.compute_nodes[k].ip, variables)>>]

\* "\n".join(lines) set between two newlines: the join of no line is the
\* empty text, which reads as one empty line.
Joined(lines) == IF lines = <<>> THEN << <<>> >> ELSE lines

\* inventory_content, as the lines of the text
InventoryContent(cfg, variables) ==
    << <<"[compute]">> >>
    \o Joined(inventory_lines(cfg, variables))
    \o << <<>>, <<"[compute:vars]">>, <<"ansible_user=compute">> >>

\* A variant that opens the file for appending.
write_file_Append(old, content) ==
    IF old = <<>> THEN <<content>> ELSE <<old[1] \o content>>

\* open(DYN_INVENTORY_PATH, "w"); f.write(inventory_content): the file holds
\* the new content, whatever it held.
write_file(old, content) == <<content>>

\* A variant that leaves the inventory file as it found it.
generate_inventory_NoWrite ==
    /\ pc = "generate_inventory"
    /\ UNCHANGED inventory
    /\ IF remote THEN Goto("main_mkdir") ELSE Goto("main_func")
    /\ UNCHANGED <<argVars, fileVars, HARDWARE_CONFIG, synced, cmdVars,
                   probeVars, waitVars, ccVars, printed, broadcast_address>>

generate_inventory ==
    /\ pc = "generate_inventory"
    /\ inventory' = write_file(inventory,
                               InventoryContent(HARDWARE_CONFIG, varsFile))
    /\ IF remote THEN Goto("main_mkdir") ELSE Goto("main_func")
    /\ UNCHANGED <<argVars, fileVars, HARDWARE_CONFIG, synced, cmdVars,
                   probeVars, waitVars, ccVars, printed, broadcast_address>>

\* The host main() stages the project tree to.
StagingHost ==
    IF TopLevel(command) = "ansible" THEN ANSIBLE_TESTING_HOST
    ELSE control_host(HARDWARE_CONFIG)

\* subprocess.run(..., check=True) of main(): not through run_command
Staging(cmd, via, result) ==
    [cmd |-> cmd, via |-> via, host |-> StagingHost, check |-> TRUE,
     returncode |-> result.returncode, stdout |-> result.stdout,
     raised |-> result.returncode # 0]

main_mkdir ==
    /\ pc = "main_mkdir"
    /\ \E result \in Plain :
         LET proc == Staging("mkdir -p ~/remote", "ssh", result) IN
         /\ Log("main", proc)
         /\ IF proc.raised
            THEN Uncaught("CalledProcessError", proc.returncode, proc.cmd)
            ELSE Goto("main_rsync")
    /\ UNCHANGED <<argVars, fileVars, HARDWARE_CONFIG, inventory, synced,
                   probeVars, waitVars, ccVars, printed, broadcast_address>>

main_rsync ==
    /\ pc = "main_rsync"
    /\ \E result \in Plain :
         LET proc == Staging("rsync", "rsync", result) IN
         /\ Log("main", proc)
         /\ IF proc.raised
            THEN /\ Uncaught("CalledProcessError", proc.returncode, proc.cmd)
                 /\ UNCHANGED synced
            ELSE /\ Goto("main_func")
                 /\ synced' = TRUE
    /\ UNCHANGED <<argVars, fileVars, HARDWARE_CONFIG, inventory,
                   probeVars, waitVars, ccVars, printed, broadcast_address>>

\* args.func(args)
main_func ==
    /\ pc = "main_func"
    /\ Call(FuncOf(command), "main_end")
    /\ UNCHANGED <<argVars, fileVars, HARDWARE_CONFIG, inventory, synced,
                   cmdVars, probeVars, waitVars, ccVars, printed,
                   broadcast_address>>

\* main() returns: the process ends with status 0.
main_end ==
    /\ pc = "main_end"
    /\ pc' = "exit"
    /\ exitCode' = 0
    /\ UNCHANGED <<stack, retval, exc, fatalMsg>>
    /\ UNCHANGED <<argVars, fileVars, HARDWARE_CONFIG, inventory, synced,
                   cmdVars, probeVars, waitVars, ccVars, printed,
                   broadcast_address>>

---------------------------------------------------------------------------
(* get_all_compute_node_statuses *)

\* One line of `ansible ... -m ping -o` output, as line.split() sees it.
ProbeLine(host, word) == <<host, "|", word, "=>">>

\* An output with one line per host of the inventory, SUCCESS for the nodes
\* of `up`.  The inventory is the one generate_inventory wrote from the same
\* profile, so the hosts ansible reports on are the configured nodes.
ProbeStdout(nodes, up) ==
    [k \in 1..Len(nodes) |->
        ProbeLine(nodes[k].name,
                  IF nodes[k].name \in up THEN "SUCCESS" ELSE "UNREACHABLE!:")]

\* The outputs of a probe within an invocation; the empty output is that of
\* a command that could not be run at all.
ProbeOutputs(nodes) ==
    {ProbeStdout(nodes, up) : up \in SUBSET Names(nodes)} \cup {<<>>}

\* statuses[key] = value
Put(statuses, key, value) ==
    [h \in DOMAIN statuses \cup {key} |-> IF h = key THEN value ELSE statuses[h]]

\* A variant that takes every line that is not UNREACHABLE for a success.
IsSuccessLine_NotUnreachable(parts) ==
    Len(parts) > 2 /\ parts[3] # "UNREACHABLE!:"

\* parts = line.split(); len(parts) > 2 and parts[2] == "SUCCESS"
IsSuccessLine(parts) == Len(parts) > 2 /\ parts[3] = "SUCCESS"

RECURSIVE MarkUp(_, _)
MarkUp(statuses, lines) ==
    IF lines = <<>> THEN statuses
    ELSE MarkUp(IF IsSuccessLine(Head(lines))
                THEN Put(statuses, Head(lines)[1], "UP")
                ELSE statuses,
                Tail(lines))

get_all_compute_node_statuses(cfg, proc) ==
    LET statuses == [h \in Names(cfg.compute_nodes) |-> "DOWN"]
    IN  IF proc.stdout # <<>> THEN MarkUp(statuses, proc.stdout) ELSE statuses

\* The probe command: run_command(command, remote=remote,
\* capture_output=True, check=False)
ProbeCommand(result) ==
    run_command("ansible compute -m ping", remote, FALSE, NoOverride, result)

ProbeResults == Results(ProbeOutputs(HARDWARE_CONFIG.compute_nodes))

LogProbe(proc) ==
    /\ probes' = probes \cup {[via |-> proc.via, host |-> proc.host]}
    /\ probe_proc' = [returncode |-> proc.returncode, stdout |-> proc.stdout]

\* The output has a success line for the host / for every configured node.
ReportsSuccess(stdout, host) ==
    \E k \in 1..Len(stdout) :
        /\ Len(stdout[k]) >= 3
        /\ stdout[k][1] = host
        /\ stdout[k][3] = "SUCCESS"
ReportsAllUp(cfg, stdout) ==
    \A h \in Names(cfg.compute_nodes) : ReportsSuccess(stdout, h)

---------------------------------------------------------------------------
(* compute_wait *)

\* A variant that looks at the first node only.
all_up_node1(statuses) == "node1" \in DOMAIN statuses => statuses["node1"] = "UP"

\* A variant that is satisfied by one reachable host.
all_up_any(statuses) == \E h \in DOMAIN statuses : statuses[h] = "UP"

\* all(status == "UP" for status in all_statuses.values())
all_up(statuses) == \A h \in DOMAIN statuses : statuses[h] = "UP"

\* A variant that names every host of the map.
down_nodes_All(statuses) == DOMAIN statuses

\* [name for name, status in all_statuses.items() if status == "DOWN"]
down_nodes(statuses) == {h \in DOMAIN statuses : statuses[h] = "DOWN"}

\* A variant without the early return for the empty profile.
compute_wait_NoEmptyCheck ==
    /\ pc = "compute_wait"
    /\ waitCalls' = waitCalls + 1
    /\ i' = 0
    /\ nprobes' = 0
    /\ nsleeps' = 0
    /\ nfail' = 0
    /\ attemptMsg' = NoMsg
    /\ Goto("compute_wait_loop")
    /\ UNCHANGED <<argVars, fileVars, HARDWARE_CONFIG, inventory, synced,
                   cmdVars, probeVars, ccVars, printed, broadcast_address>>

\* Entry: the empty profile returns at once.
compute_wait ==
    /\ pc = "compute_wait"
    /\ waitCalls' = waitCalls + 1
    /\ i' = 0
    /\ nprobes' = 0
    /\ nsleeps' = 0
    /\ nfail' = 0
    /\ attemptMsg' = NoMsg
    /\ IF HARDWARE_CONFIG.compute_nodes = <<>>
       THEN Return(RetZero)
       ELSE Goto("compute_wait_loop")
    /\ UNCHANGED <<argVars, fileVars, HARDWARE_CONFIG, inventory, synced,
                   cmdVars, probeVars, ccVars, printed, broadcast_address>>

\* One iteration of `for i in range(100)` up to the sleep.
compute_wait_attempt ==
    /\ pc = "compute_wait_loop"
    /\ i < MaxAttempts
    /\ \E result \in ProbeResults :
         LET proc == ProbeCommand(result)
             statuses == get_all_compute_node_statuses(HARDWARE_CONFIG, proc)
         IN  /\ LogProbe(proc)
             /\ nprobes' = nprobes + 1
             /\ nfail' = IF ReportsAllUp(HARDWARE_CONFIG, result.stdout)
                         THEN nfail ELSE nfail + 1
             /\ IF proc.raised
                THEN /\ Uncaught("CalledProcessError", proc.returncode, proc.cmd)
                     /\ UNCHANGED <<all_statuses, attemptMsg>>
                ELSE /\ all_statuses' = statuses
                     /\ IF all_up(statuses)
                        THEN /\ Return(RetZero)
                             /\ UNCHANGED attemptMsg
                        ELSE /\ attemptMsg' =
                                  [kind |-> "attempt", attempt |-> i + 1,
                                   names |-> down_nodes(statuses)]
                             /\ Goto("compute_wait_sleep")
    /\ UNCHANGED <<argVars, fileVars, HARDWARE_CONFIG, inventory, synced,
                   cmdVars, i, nsleeps, waitCalls, ccVars, printed,
                   broadcast_address>>

\* A variant that does not sleep after the last attempt.
compute_wait_sleep_NoLast ==
    /\ pc = "compute_wait_sleep"
    /\ nsleeps' = IF i + 1 < MaxAttempts THEN nsleeps + 1 ELSE nsleeps
    /\ i' = i + 1
    /\ Goto("compute_wait_loop")
    /\ UNCHANGED <<argVars, fileVars, HARDWARE_CONFIG, inventory, synced,
                   cmdVars, probeVars, nprobes, nfail, waitCalls, attemptMsg,
                   ccVars, printed, broadcast_address>>

\* time.sleep(1), then the next value of i
compute_wait_sleep ==
    /\ pc = "compute_wait_sleep"
    /\ nsleeps' = nsleeps + 1
    /\ i' = i + 1
    /\ Goto("compute_wait_loop")
    /\ UNCHANGED <<argVars, fileVars, HARDWARE_CONFIG, inventory, synced,
                   cmdVars, probeVars, nprobes, nfail, waitCalls, attemptMsg,
                   ccVars, printed, broadcast_address>>

\* A variant that falls off the loop and returns.
compute_wait_exhausted_Returns ==
    /\ pc = "compute_wait_loop"
    /\ ~(i < MaxAttempts)
    /\ Return(NoVal)
    /\ UNCHANGED <<argVars, fileVars, HARDWARE_CONFIG, inventory, synced,
                   cmdVars, probeVars, waitVars, ccVars, printed,
                   broadcast_address>>

\* The range is exhausted: logging.error(...) names no node; sys.exit(1).
compute_wait_exhausted ==
    /\ pc = "compute_wait_loop"
    /\ ~(i < MaxAttempts)
    /\ SysExit(1, "ReachabilityTimeout", {})
    /\ UNCHANGED <<argVars, fileVars, HARDWARE_CONFIG, inventory, synced,
                   cmdVars, probeVars, waitVars, ccVars, printed,
                   broadcast_address>>

---------------------------------------------------------------------------
(* Operations of one command *)

opFrame == <<argVars, fileVars, HARDWARE_CONFIG, inventory, synced, probeVars,
             waitVars, ccVars, printed, broadcast_address>>

\* A variant without the try/except.
Tolerated_Propagates(func, proc) == RunAndReturn(func, proc)

\* compute_down / compute_restart: the CalledProcessError is caught and
\* logged at info level; the function returns None either way.
Tolerated(func, proc) ==
    /\ Log(func, proc)
    /\ Return(NoVal)

compute_down ==
    /\ pc = "compute_down"
    /\ \E result \in Plain :
         Tolerated("compute_down",
                   run_command("shutdown now", remote, TRUE, NoOverride, result))
    /\ UNCHANGED opFrame

compute_restart ==
    /\ pc = "compute_restart"
    /\ \E result \in Plain :
         Tolerated("compute_restart",
                   run_command("shutdown -r now", remote, TRUE, NoOverride, result))
    /\ UNCHANGED opFrame

compute_configure ==
    /\ pc = "compute_configure"
    /\ \E result \in Plain :
         RunAndReturn("compute_configure",
                      run_command("compute_configure.yml", remote, TRUE,
                                  NoOverride, result))
    /\ UNCHANGED opFrame

compute_test ==
    /\ pc = "compute_test"
    /\ \E result \in Plain :
         RunAndReturn("compute_test",
                      run_command("compute_test.yml", remote, TRUE,
                                  NoOverride, result))
    /\ UNCHANGED opFrame

control_configure ==
    /\ pc = "control_configure"
    /\ \E result \in Plain :
         RunAndReturn("control_configure",
                      run_command("control_configure.yml", remote, TRUE,
                                  NoOverride, result))
    /\ UNCHANGED opFrame

control_test ==
    /\ pc = "control_test"
    /\ \E result \in Plain :
         RunAndReturn("control_test",
                      run_command("control_test.yml", remote, TRUE,
                                  NoOverride, result))
    /\ UNCHANGED opFrame

\* The playbook, then the chown of ~/.ansible.
control_build_image ==
    /\ pc = "control_build_image"
    /\ \E result \in Plain :
         LET proc == run_command("build_image.yml", remote, TRUE, NoOverride,
                                 result)
         IN  /\ Log("control_build_image", proc)
             /\ IF proc.raised
                THEN Uncaught("CalledProcessError", proc.returncode, proc.cmd)
                ELSE Goto("control_build_image_chown")
    /\ UNCHANGED opFrame

control_build_image_chown ==
    /\ pc = "control_build_image_chown"
    /\ \E result \in Plain :
         RunAndReturn("control_build_image",
                      run_command("chown ~/.ansible", remote, TRUE, NoOverride,
                                  result))
    /\ UNCHANGED opFrame

control_clean_image ==
    /\ pc = "control_clean_image"
    /\ \E result \in Plain :
         RunAndReturn("control_clean_image",
                      run_command("clean_image.yml", TRUE, TRUE, NoOverride,
                                  result))
    /\ UNCHANGED opFrame

control_cmd ==
    /\ pc = "control_cmd"
    /\ \E result \in Plain :
         RunAndReturn("control_cmd",
                      run_command("args.command", TRUE, TRUE, NoOverride,
                                  result))
    /\ UNCHANGED opFrame

ansible_testing_configure ==
    /\ pc = "ansible_testing_configure"
    /\ \E result \in Plain :
         RunAndReturn("ansible_testing_configure",
                      run_command("testing_configure.yml", TRUE, TRUE,
                                  ANSIBLE_TESTING_HOST, result))
    /\ UNCHANGED opFrame

ansible_lint ==
    /\ pc = "ansible_lint"
    /\ \E result \in Plain :
         RunAndReturn("ansible_lint",
                      run_command("ansible-lint", TRUE, TRUE,
                                  ANSIBLE_TESTING_HOST, result))
    /\ UNCHANGED opFrame

\* HARDWARE_CONFIG["compute_nodes"][node_index]: a Python list index
ValidIndex(nodes, index) == -Len(nodes) <= index /\ index < Len(nodes)

\* os.system(command): the exit status is ignored.
os_system(cmd, rem, result) ==
    [cmd |-> cmd, via |-> IF rem THEN "ssh" ELSE "local",
     host |-> IF rem THEN control_host(HARDWARE_CONFIG) ELSE LocalHost,
     check |-> FALSE, returncode |-> result.returncode,
     stdout |-> result.stdout, raised |-> FALSE]

compute_ssh ==
    /\ pc = "compute_ssh"
    /\ IF ~ValidIndex(HARDWARE_CONFIG.compute_nodes, node_index)
       THEN /\ SysExit(1, "IndexError", {})
            /\ UNCHANGED cmdVars
       ELSE \E result \in Plain :
              /\ Log("compute_ssh", os_system("ssh node", remote, result))
              /\ Return(NoVal)
    /\ UNCHANGED opFrame

compute_cmd ==
    /\ pc = "compute_cmd"
    /\ IF ~ValidIndex(HARDWARE_CONFIG.compute_nodes, node_index)
       THEN /\ SysExit(1, "IndexError", {})
            /\ UNCHANGED cmdVars
       ELSE \E result \in Plain :
              RunAndReturn("compute_cmd",
                           run_command("ansible node -m shell", remote, TRUE,
                                       NoOverride, result))
    /\ UNCHANGED opFrame

control_ssh ==
    /\ pc = "control_ssh"
    /\ IF ~remote
       THEN /\ Return(NoVal)
            /\ UNCHANGED cmdVars
       ELSE \E result \in Plain :
              /\ Log("control_ssh", os_system("ssh -t", TRUE, result))
              /\ Return(NoVal)
    /\ UNCHANGED opFrame

\* ansible_test: the search over tests/ and roles/ with `test -d`
ansible_test ==
    /\ pc = "ansible_test"
    /\ \E first \in Plain, second \in Plain :
         LET p1 == run_command("test -d tests", test_remote, TRUE,
                               ANSIBLE_TESTING_HOST, first)
             p2 == run_command("test -d roles", test_remote, TRUE,
                               ANSIBLE_TESTING_HOST, second)
             e1 == [func |-> "ansible_test", cmd |-> p1.cmd, via |-> p1.via,
                    host |-> p1.host]
             e2 == [func |-> "ansible_test", cmd |-> p2.cmd, via |-> p2.via,
                    host |-> p2.host]
         IN  IF ~p1.raised
             THEN /\ cmds' = Append(cmds, e1)
                  /\ last' = [cmd |-> p1.cmd, returncode |-> p1.returncode,
                              stdout |-> p1.stdout, check |-> TRUE,
                              raised |-> FALSE]
                  /\ Goto("ansible_test_find")
             ELSE /\ cmds' = Append(Append(cmds, e1), e2)
                  /\ last' = [cmd |-> p2.cmd, returncode |-> p2.returncode,
                              stdout |-> p2.stdout, check |-> TRUE,
                              raised |-> p2.raised]
                  /\ IF ~p2.raised
                     THEN Goto("ansible_test_find")
                     ELSE SysExit(1, "TestNotFound", {})
    /\ UNCHANGED opFrame

\* find .../molecule_vagrant -name modules: empty output ends the run
ansible_test_find ==
    /\ pc = "ansible_test_find"
    /\ \E result \in Results({<<>>, <<"modules">>}) :
         LET proc == run_command("find modules", test_remote, TRUE,
                                 ANSIBLE_TESTING_HOST, result)
         IN  /\ Log("ansible_test", proc)
             /\ IF proc.raised
                THEN Uncaught("CalledProcessError", proc.returncode, proc.cmd)
                ELSE IF proc.stdout = <<>>
                     THEN SysExit(1, "ModulePathNotFound", {})
                     ELSE Goto("ansible_test_run")
    /\ UNCHANGED opFrame

ansible_test_run ==
    /\ pc = "ansible_test_run"
    /\ \E result \in Plain :
         RunAndReturn("ansible_test",
                      run_command("molecule test", test_remote, TRUE,
                                  ANSIBLE_TESTING_HOST, result))
    /\ UNCHANGED opFrame

\* A variant that walks the node list backwards.
StatusReport_Reversed(nodes, statuses) ==
    LET n == Len(nodes) IN
    [k \in 1..n |->
        [name |-> nodes[n + 1 - k].name,
         status |-> IF nodes[n + 1 - k].name \in DOMAIN statuses
                    THEN statuses[nodes[n + 1 - k].name] ELSE "DOWN"]]

\* all_statuses.get(node["name"], "DOWN") for every node of the profile
StatusReport(nodes, statuses) ==
    [k \in 1..Len(nodes) |->
        [name |-> nodes[k].name,
         status |-> IF nodes[k].name \in DOMAIN statuses
                    THEN statuses[nodes[k].name] ELSE "DOWN"]]

cluster_status ==
    /\ pc = "cluster_status"
    /\ IF HARDWARE_CONFIG.compute_nodes = <<>>
       THEN /\ UNCHANGED <<probeVars, printed>>
            /\ Return(NoVal)
       ELSE \E result \in ProbeResults :
              LET proc == ProbeCommand(result)
                  statuses == get_all_compute_node_statuses(HARDWARE_CONFIG, proc)
              IN  /\ LogProbe(proc)
                  /\ IF proc.raised
                     THEN /\ Uncaught("CalledProcessError", proc.returncode,
                                      proc.cmd)
                          /\ UNCHANGED <<all_statuses, printed>>
                     ELSE /\ all_statuses' = statuses
                          /\ printed' = StatusReport(
                                  HARDWARE_CONFIG.compute_nodes, statuses)
                          /\ Return(NoVal)
    /\ UNCHANGED <<argVars, fileVars, HARDWARE_CONFIG, inventory, synced,
                   cmdVars, waitVars, ccVars, broadcast_address>>

\* A variant that writes the selector without looking for the profile file.
hardware_set_NoCheck ==
    /\ pc = "hardware_set"
    /\ versionFile' = version
    /\ last_set' = version
    /\ Return(NoVal)
    /\ UNCHANGED <<argVars, profileFiles, varsFile, inventory_before,
                   HARDWARE_CONFIG, inventory, synced,
                   cmdVars, probeVars, waitVars, ccVars, printed,
                   broadcast_address>>

hardware_set ==
    /\ pc = "hardware_set"
    /\ IF version \notin DOMAIN profileFiles
       THEN /\ SysExit(1, "ConfigMissing", {})
            /\ UNCHANGED <<versionFile, last_set>>
       ELSE /\ versionFile' = version
            /\ last_set' = version
            /\ Return(NoVal)
    /\ UNCHANGED <<argVars, profileFiles, varsFile, inventory_before,
                   HARDWARE_CONFIG, inventory, synced,
                   cmdVars, probeVars, waitVars, ccVars, printed,
                   broadcast_address>>

hardware_get ==
    /\ pc = "hardware_get"
    /\ IF versionFile = NoFile
       THEN /\ SysExit(1, "ConfigMissing", {})
            /\ UNCHANGED printed
       ELSE /\ printed' = <<[name |-> strip(versionFile), status |-> "version"]>>
            /\ Return(NoVal)
    /\ UNCHANGED <<argVars, fileVars, HARDWARE_CONFIG, inventory, synced,
                   cmdVars, probeVars, waitVars, ccVars, broadcast_address>>

cluster_doc ==
    /\ pc = "cluster_doc"
    /\ Return(NoVal)
    /\ UNCHANGED cmdVars
    /\ UNCHANGED opFrame

---------------------------------------------------------------------------
(* wake: get_broadcast_address and compute_up *)

\* A line of the playbook's output as line.split('"') sees it: the text
\* between the quote characters.
MsgLine == <<"    ", "msg", ": ", "192.0.2.255", "">>
TaskLine == <<"TASK [debug] ***">>
BareMsgLine == <<"    ", "msg", ": 42">>
\* The result on one line: {"changed": false, "msg": "192.0.2.255"}
InlineMsgLine ==
    <<"{", "changed", ": false, ", "msg", ": ", "192.0.2.255", "}">>

BroadcastOutputs == {<<TaskLine, MsgLine>>, <<TaskLine>>, <<BareMsgLine>>}

\* '"msg":' in line: a quoted msg directly followed by a colon
HasMarker(segs) ==
    \E j \in 2..(Len(segs) - 1) :
        segs[j] = "msg" /\ segs[j + 1] \in {":", ": ", ": 42"}

\* The for loop of get_broadcast_address over proc.stdout.split("\n")
RECURSIVE parse_broadcast(_)
parse_broadcast(lines) ==
    IF lines = <<>> THEN [kind |-> "BroadcastParseError", value |-> NoVal]
    ELSE IF HasMarker(Head(lines))
         THEN IF Len(Head(lines)) >= 4
              THEN [kind |-> "ok", value |-> Head(lines)[4]]
              ELSE [kind |-> "IndexError", value |-> NoVal]
         ELSE parse_broadcast(Tail(lines))

\* A variant without the early return for the empty profile.
compute_up_NoEmptyCheck ==
    /\ pc = "compute_up"
    /\ Call("get_broadcast_address", "compute_up_wol")
    /\ UNCHANGED cmdVars
    /\ UNCHANGED opFrame

\* compute_up up to the call of get_broadcast_address
compute_up ==
    /\ pc = "compute_up"
    /\ IF HARDWARE_CONFIG.compute_nodes = <<>>
       THEN Return(NoVal)
       ELSE Call("get_broadcast_address", "compute_up_wol")
    /\ UNCHANGED cmdVars
    /\ UNCHANGED opFrame

\* The body of get_broadcast_address when the job ends with `result`
broadcast_from(result) ==
    LET proc == run_command("get_broadcast.yml", remote, TRUE, NoOverride,
                            result)
        parsed == parse_broadcast(proc.stdout)
    IN  /\ Log("get_broadcast_address", proc)
        /\ IF proc.raised
           THEN /\ SysExit(1, "CommandFailed", {})
                /\ UNCHANGED broadcast_address
           ELSE IF parsed.kind = "ok"
                THEN /\ Return(parsed.value)
                     /\ broadcast_address' = parsed.value
                ELSE IF parsed.kind = "IndexError"
                     THEN /\ Uncaught("IndexError", 0, proc.cmd)
                          /\ UNCHANGED broadcast_address
                     ELSE /\ SysExit(1, "BroadcastParseError", {})
                          /\ UNCHANGED broadcast_address

get_broadcast_address ==
    /\ pc = "get_broadcast_address"
    /\ \E result \in Results(BroadcastOutputs) : broadcast_from(result)
    /\ UNCHANGED <<argVars, fileVars, HARDWARE_CONFIG, inventory, synced,
                   probeVars, waitVars, ccVars, printed>>

\* A variant that waits for the nodes even when the wake command failed.
compute_up_wol_Swallow ==
    /\ pc = "compute_up_wol"
    /\ \E result \in Plain :
         /\ Log("compute_up",
                run_command("wol_up.yml", remote, TRUE, NoOverride, result))
         /\ Call("compute_wait", "compute_up_end")
    /\ UNCHANGED opFrame

\* The wake command, then compute_wait(args)
compute_up_wol ==
    /\ pc = "compute_up_wol"
    /\ \E result \in Plain :
         LET proc == run_command("wol_up.yml", remote, TRUE, NoOverride, result)
         IN  /\ Log("compute_up", proc)
             /\ IF proc.raised
                THEN Uncaught("CalledProcessError", proc.returncode, proc.cmd)
                ELSE Call("compute_wait", "compute_up_end")
    /\ UNCHANGED opFrame

compute_up_end ==
    /\ pc = "compute_up_end"
    /\ Return(NoVal)
    /\ UNCHANGED cmdVars
    /\ UNCHANGED opFrame

---------------------------------------------------------------------------
(* cluster_configure *)

\* A variant that asks for every host to be UP.
any_up_All(statuses) == \A h \in DOMAIN statuses : statuses[h] = "UP"

\* "UP" in all_statuses.values()
any_up(statuses) == \E h \in DOMAIN statuses : statuses[h] = "UP"

\* A variant that configures the compute nodes before waiting for them.
CCSequence_ConfigureBeforeWait ==
    <<"control_build_image", "control_configure", "compute_up",
      "compute_configure", "compute_wait">>

\* The calls that follow the shutdown decision, in program order.
CCSequence ==
    <<"control_build_image", "control_configure", "compute_up",
      "compute_wait", "compute_configure">>

\* The status check before shutting down
\* A variant that probes whatever the profile holds.
cluster_configure_AlwaysProbe ==
    /\ pc = "cluster_configure"
    /\ \E result \in ProbeResults :
         LET proc == ProbeCommand(result)
             statuses == get_all_compute_node_statuses(HARDWARE_CONFIG, proc)
         IN  /\ LogProbe(proc)
             /\ all_statuses' = statuses
             /\ initStatuses' = statuses
             /\ compute_nodes_up' = any_up(statuses)
             /\ Goto("cluster_configure_down")
    /\ UNCHANGED <<argVars, fileVars, HARDWARE_CONFIG, inventory, synced,
                   cmdVars, waitVars, steps, cc_ip, printed, broadcast_address>>

cluster_configure ==
    /\ pc = "cluster_configure"
    /\ IF HARDWARE_CONFIG.compute_nodes = <<>>
       THEN /\ compute_nodes_up' = FALSE
            /\ UNCHANGED <<probeVars, initStatuses>>
            /\ Goto("cluster_configure_down")
       ELSE \E result \in ProbeResults :
              LET proc == ProbeCommand(result)
                  statuses == get_all_compute_node_statuses(HARDWARE_CONFIG, proc)
              IN  /\ LogProbe(proc)
                  /\ IF proc.raised
                     THEN /\ Uncaught("CalledProcessError", proc.returncode,
                                      proc.cmd)
                          /\ UNCHANGED <<all_statuses, initStatuses,
                                         compute_nodes_up>>
                     ELSE /\ all_statuses' = statuses
                          /\ initStatuses' = statuses
                          /\ compute_nodes_up' = any_up(statuses)
                          /\ Goto("cluster_configure_down")
    /\ UNCHANGED <<argVars, fileVars, HARDWARE_CONFIG, inventory, synced,
                   cmdVars, waitVars, steps, cc_ip, printed, broadcast_address>>

\* if compute_nodes_up: compute_down(args)
cluster_configure_down ==
    /\ pc = "cluster_configure_down"
    /\ cc_ip' = 1
    /\ IF compute_nodes_up
       THEN /\ steps' = Append(steps, "compute_down")
            /\ Call("compute_down", "cluster_configure_seq")
       ELSE /\ UNCHANGED steps
            /\ Goto("cluster_configure_seq")
    /\ UNCHANGED <<argVars, fileVars, HARDWARE_CONFIG, inventory, synced,
                   cmdVars, probeVars, waitVars, initStatuses,
                   compute_nodes_up, printed, broadcast_address>>

\* Lines 511-516: the next call of the sequence, or the return
cluster_configure_seq ==
    /\ pc = "cluster_configure_seq"
    /\ IF cc_ip <= Len(CCSequence)
       THEN /\ steps' = Append(steps, CCSequence[cc_ip])
            /\ cc_ip' = cc_ip + 1
            /\ Call(CCSequence[cc_ip], "cluster_configure_seq")
       ELSE /\ UNCHANGED <<steps, cc_ip>>
            /\ Return(NoVal)
    /\ UNCHANGED <<argVars, fileVars, HARDWARE_CONFIG, inventory, synced,
                   cmdVars, probeVars, waitVars, initStatuses,
                   compute_nodes_up, printed, broadcast_address>>

---------------------------------------------------------------------------
(* The invocation *)

Next ==
    \/ main
    \/ load_hardware_config
    \/ generate_inventory
    \/ main_mkdir
    \/ main_rsync
    \/ main_func
    \/ main_end
    \/ compute_wait
    \/ compute_wait_attempt
    \/ compute_wait_sleep
    \/ compute_wait_exhausted
    \/ compute_down
    \/ compute_restart
    \/ compute_configure
    \/ compute_test
    \/ compute_ssh
    \/ compute_cmd
    \/ control_configure
    \/ control_test
    \/ control_build_image
    \/ control_build_image_chown
    \/ control_clean_image
    \/ control_cmd
    \/ control_ssh
    \/ ansible_testing_configure
    \/ ansible_lint
    \/ ansible_test
    \/ ansible_test_find
    \/ ansible_test_run
    \/ cluster_status
    \/ hardware_set
    \/ hardware_get
    \/ cluster_doc
    \/ compute_up
    \/ get_broadcast_address
    \/ compute_up_wol
    \/ compute_up_end
    \/ cluster_configure
    \/ cluster_configure_down
    \/ cluster_configure_seq

Spec == Init /\ [][Next]_vars

---------------------------------------------------------------------------
(* compute_wait on its own: the invocation `cluster compute wait`.  The
   process runs one statement after the other and every external command
   and sleep returns, so a step that can be taken is taken. *)

WaitInit == Init /\ command = "compute wait"

WaitNext ==
    \/ main
    \/ load_hardware_config
    \/ generate_inventory
    \/ main_mkdir
    \/ main_rsync
    \/ main_func
    \/ main_end
    \/ compute_wait
    \/ compute_wait_attempt
    \/ compute_wait_sleep
    \/ compute_wait_exhausted

WaitSpec == WaitInit /\ [][WaitNext]_vars /\ WF_vars(WaitNext)

---------------------------------------------------------------------------
(* get_all_compute_node_statuses applied to arbitrary output *)

MaxLines == 2

ProbeHosts == {NodeNames[k] : k \in 1..MaxNodes} \cup {Ghost}

\* Lines of every shape the classification has to tell apart.
RichLines ==
    {ProbeLine(h, w) : h \in ProbeHosts,
                       w \in {"SUCCESS", "UNREACHABLE!:", "FAILED!"}}
    \cup {<<h, "|">> : h \in ProbeHosts}
    \cup {<<h, "SUCCESS", "|">> : h \in ProbeHosts}

RichOutputs == UNION {[1..n -> RichLines] : n \in 0..MaxLines}

ProbeInit ==
    /\ command = "compute status"
    /\ remote \in BOOLEAN
    /\ test_remote = FALSE
    /\ node_index = 0
    /\ version = "0.1"
    /\ proc_in \in Results(RichOutputs)
    /\ check_in = FALSE
    /\ versionFile = "0.1"
    /\ profileFiles \in {[v \in {"0.1"} |-> p] : p \in Profiles}
    /\ varsFile = ansible_vars
    /\ inventory_before = <<>>
    /\ HARDWARE_CONFIG = profileFiles["0.1"]
    /\ pc = "get_all_compute_node_statuses"
    /\ InitRest

apply_get_all_compute_node_statuses ==
    /\ pc = "get_all_compute_node_statuses"
    /\ LET proc == ProbeCommand(proc_in)
       IN  /\ LogProbe(proc)
           /\ IF proc.raised
              THEN /\ Uncaught("CalledProcessError", proc.returncode, proc.cmd)
                   /\ UNCHANGED all_statuses
              ELSE /\ all_statuses' =
                        get_all_compute_node_statuses(HARDWARE_CONFIG, proc)
                   /\ pc' = "returned"
                   /\ UNCHANGED <<stack, retval, exc, exitCode, fatalMsg>>
    /\ UNCHANGED <<argVars, fileVars, HARDWARE_CONFIG, inventory, synced,
                   cmdVars, waitVars, ccVars, printed, broadcast_address>>

ProbeNext == apply_get_all_compute_node_statuses

ProbeSpec == ProbeInit /\ [][ProbeNext]_vars

---------------------------------------------------------------------------
(* run_command applied to every exit status, checked and unchecked *)

\* The exit statuses a process can end with: one byte
ExitStatuses == 0..255

RunInit ==
    /\ command = "control cmd"
    /\ remote \in BOOLEAN
    /\ test_remote = FALSE
    /\ node_index = 0
    /\ version = "0.1"
    /\ proc_in \in [returncode : ExitStatuses, stdout : {<<>>}]
    /\ check_in \in BOOLEAN
    /\ versionFile = "0.1"
    /\ profileFiles \in {[v \in {"0.1"} |-> q] : q \in Profiles}
    /\ varsFile = ansible_vars
    /\ inventory_before = <<>>
    /\ HARDWARE_CONFIG = profileFiles["0.1"]
    /\ pc = "run_command"
    /\ InitRest

apply_run_command ==
    /\ pc = "run_command"
    /\ LET proc == run_command("args.command", remote, check_in, NoOverride,
                               proc_in)
       IN  /\ Log("run_command", proc)
           /\ IF proc.raised
              THEN Uncaught("CalledProcessError", proc.returncode, proc.cmd)
              ELSE Goto("returned")
    /\ UNCHANGED opFrame

RunNext == apply_run_command

RunSpec == RunInit /\ [][RunNext]_vars

---------------------------------------------------------------------------
(* hardware set and hardware get, one invocation after the other on the same
   files.  Profile files are never removed; the selector file is absent at
   first, or names an existing profile, with or without a final newline. *)

SelectorContents(files) ==
    {NoFile} \cup DOMAIN files \cup {v \o "\n" : v \in DOMAIN files}

HwInit ==
    /\ command \in {"hardware set", "hardware get"}
    /\ remote = FALSE
    /\ test_remote = FALSE
    /\ node_index = 0
    /\ version \in (IF command = "hardware set" THEN Versions ELSE {"0.1"})
    /\ proc_in = NoResult
    /\ check_in = TRUE
    /\ profileFiles \in {[v \in vs |-> [compute_nodes |-> NodeList(1)]] :
                            vs \in SUBSET Versions}
    /\ versionFile \in SelectorContents(profileFiles)
    /\ varsFile = ansible_vars
    /\ inventory_before = <<>>
    /\ HARDWARE_CONFIG = NoConfig
    /\ pc = "main"
    /\ InitRest

\* The next invocation of the program: a new process with a new command
\* line, on the files the previous one left.
invoke_again ==
    /\ pc = "exit"
    /\ \E c \in {"hardware set", "hardware get"} :
         /\ command' = c
         /\ version' \in (IF c = "hardware set" THEN Versions ELSE {"0.1"})
    /\ pc' = "main"
    /\ stack' = <<>>
    /\ retval' = NoVal
    /\ exc' = NoExc
    /\ exitCode' = Running
    /\ fatalMsg' = NoMsg
    /\ printed' = <<>>
    /\ UNCHANGED <<remote, test_remote, node_index, proc_in, check_in,
                   fileVars, HARDWARE_CONFIG, inventory, synced, cmdVars,
                   probeVars, waitVars, ccVars, broadcast_address>>

HwNext ==
    \/ main
    \/ main_func
    \/ hardware_set
    \/ hardware_get
    \/ main_end
    \/ invoke_again

HwSpec == HwInit /\ [][HwNext]_vars

---------------------------------------------------------------------------
(* src/remote.py: the wrapper that stages the tree and runs one command on
   the control host *)

\* subprocess.run(argv) without check=True
subprocess_run(cmd, via, result) ==
    [cmd |-> cmd, via |-> via, host |-> "control", check |-> FALSE,
     returncode |-> result.returncode, stdout |-> result.stdout,
     raised |-> FALSE]

\* sys.exit(code): the status the parent sees is the low byte
sys_exit(code) ==
    /\ pc' = "exit"
    /\ exitCode' = code % 256
    /\ UNCHANGED <<stack, retval, exc, fatalMsg>>

RemoteInit ==
    /\ command \in {NoCommand, "args.command"}
    /\ remote = TRUE
    /\ test_remote = FALSE
    /\ node_index = 0
    /\ version = "0.1"
    /\ proc_in \in [returncode : ExitStatuses, stdout : {<<>>}]
    /\ check_in = FALSE
    /\ versionFile = NoFile
    /\ profileFiles \in {[v \in {} |-> NoConfig]}
    /\ varsFile = ansible_vars
    /\ inventory_before = <<>>
    /\ HARDWARE_CONFIG = NoConfig
    /\ pc = "remote_main"
    /\ InitRest

\* The usage check and step 1: mkdir -p, its result ignored
remote_main ==
    /\ pc = "remote_main"
    /\ IF command = NoCommand
       THEN /\ sys_exit(1)
            /\ UNCHANGED cmdVars
       ELSE \E result \in Plain :
              /\ Log("remote_main",
                     subprocess_run("mkdir -p ~/remote", "ssh", result))
              /\ Goto("remote_rsync")
    /\ UNCHANGED opFrame

\* Step 2: rsync; a non-zero result is sys.exit(1)
remote_rsync ==
    /\ pc = "remote_rsync"
    /\ \E result \in Plain :
         /\ Log("remote_main", subprocess_run("rsync", "rsync", result))
         /\ IF result.returncode # 0
            THEN /\ sys_exit(1)
                 /\ UNCHANGED synced
            ELSE /\ Goto("remote_ssh")
                 /\ synced' = TRUE
    /\ UNCHANGED <<argVars, fileVars, HARDWARE_CONFIG, inventory,
                   probeVars, waitVars, ccVars, printed, broadcast_address>>

\* A variant that reports any failure of the remote command as status 1.
remote_ssh_Remap ==
    /\ pc = "remote_ssh"
    /\ Log("remote_main", subprocess_run("args.command", "ssh", proc_in))
    /\ sys_exit(IF proc_in.returncode = 0 THEN 0 ELSE 1)
    /\ UNCHANGED opFrame

\* Step 3: the command in a remote shell; sys.exit(ssh_result.returncode)
remote_ssh ==
    /\ pc = "remote_ssh"
    /\ Log("remote_main", subprocess_run("args.command", "ssh", proc_in))
    /\ sys_exit(proc_in.returncode)
    /\ UNCHANGED opFrame

RemoteNext ==
    \/ remote_main
    \/ remote_rsync
    \/ remote_ssh

RemoteSpec == RemoteInit /\ [][RemoteNext]_vars

---------------------------------------------------------------------------
(* wake of a profile with nodes, up to the reachability wait, with
   get_broadcast_address applied to job outputs of every shape *)

\* Lines the parsing has to tell apart
BroadcastLines ==
    {TaskLine, MsgLine, BareMsgLine, InlineMsgLine,
     <<"    ", "msg", ": ", "198.51.100.255", "">>}

RichBroadcastOutputs == UNION {[1..n -> BroadcastLines] : n \in 0..MaxLines}

WakeInit ==
    /\ command = "compute up"
    /\ remote \in BOOLEAN
    /\ test_remote = FALSE
    /\ node_index = 0
    /\ version = "0.1"
    /\ proc_in \in Results(RichBroadcastOutputs)
    /\ check_in = TRUE
    /\ versionFile = "0.1"
    /\ profileFiles \in {[v \in {"0.1"} |-> q] :
                            q \in {r \in Profiles : r.compute_nodes # <<>>}}
    /\ varsFile = ansible_vars
    /\ inventory_before = <<>>
    /\ HARDWARE_CONFIG = profileFiles["0.1"]
    /\ pc = "compute_up"
    /\ InitRest

apply_get_broadcast_address ==
    /\ pc = "get_broadcast_address"
    /\ broadcast_from(proc_in)
    /\ UNCHANGED <<argVars, fileVars, HARDWARE_CONFIG, inventory, synced,
                   probeVars, waitVars, ccVars, printed>>

WakeNext ==
    \/ compute_up
    \/ apply_get_broadcast_address
    \/ compute_up_wol

WakeSpec == WakeInit /\ [][WakeNext]_vars

---------------------------------------------------------------------------
(* generate_inventory applied, twice in a row, to any profile, variable
   dictionary and previous content of the inventory file *)

\* Address templates of node k: "{{ compute_subnet }}.1k",
\* "{{ storage_subnet }}.1k" and the plain address "192.168.1.1k"
InvTemplates(k) ==
    <<NodeOf(k).ip,
      <<[kind |-> "var", text |-> "storage_subnet"],
        [kind |-> "lit", text |-> NodeSuffix[k]]>>,
      <<[kind |-> "lit", text |-> "192.168.1"],
        [kind |-> "lit", text |-> NodeSuffix[k]]>> >>

InvNodeLists(n) ==
    {[k \in 1..n |-> [name |-> NodeNames[k],
                      ip   |-> InvTemplates(k)[t[k]],
                      mac  |-> NodeMacs[k]]] : t \in [1..n -> 1..3]}

InvProfiles ==
    UNION {{[compute_nodes |-> l] : l \in InvNodeLists(n)} : n \in 0..MaxNodes}

\* Contents of ansible/vars/main.yml: storage_subnet is defined in one only.
VarDicts ==
    {ansible_vars,
     [v \in {"compute_subnet", "storage_subnet"} |->
         IF v = "compute_subnet" THEN "10.0.0" ELSE "10.0.1"],
     [v \in {"compute_subnet"} |-> "172.16.0"]}

\* The file is absent, or holds what an earlier invocation wrote.
PriorInventories ==
    {<<>>} \cup {<<InventoryContent(q, ansible_vars)>> : q \in Profiles}

InvInit ==
    /\ command = "compute status"
    /\ remote = FALSE
    /\ test_remote = FALSE
    /\ node_index = 0
    /\ version = "0.1"
    /\ proc_in = NoResult
    /\ check_in = TRUE
    /\ versionFile = "0.1"
    /\ HARDWARE_CONFIG \in InvProfiles
    /\ profileFiles = [v \in {"0.1"} |-> HARDWARE_CONFIG]
    /\ varsFile \in VarDicts
    /\ inventory_before \in PriorInventories
    /\ pc = "apply_generate_inventory"
    /\ InitRest

apply_generate_inventory ==
    /\ pc = "apply_generate_inventory"
    /\ inventory' = write_file(inventory,
                               InventoryContent(HARDWARE_CONFIG, varsFile))
    /\ Goto("apply_generate_inventory_again")
    /\ UNCHANGED <<argVars, fileVars, HARDWARE_CONFIG, synced, cmdVars,
                   probeVars, waitVars, ccVars, printed, broadcast_address>>

apply_generate_inventory_again ==
    /\ pc = "apply_generate_inventory_again"
    /\ inventory' = write_file(inventory,
                               InventoryContent(HARDWARE_CONFIG, varsFile))
    /\ Goto("returned")
    /\ UNCHANGED <<argVars, fileVars, HARDWARE_CONFIG, synced, cmdVars,
                   probeVars, waitVars, ccVars, printed, broadcast_address>>

InvNext ==
    \/ apply_generate_inventory
    \/ apply_generate_inventory_again

InvSpec == InvInit /\ [][InvNext]_vars

---------------------------------------------------------------------------
(* Properties of the full bootstrap and of the reachability wait *)

IsPrefix(s, t) == Len(s) <= Len(t) /\ s = SubSeq(t, 1, Len(s))

Nodes == HARDWARE_CONFIG.compute_nodes

\* cluster_configure has probed and the probe found ...
InitProbed == DOMAIN initStatuses # {}
InitAllUp == InitProbed /\ \A h \in Names(Nodes) : initStatuses[h] = "UP"
InitAllDown == InitProbed /\ \A h \in DOMAIN initStatuses : initStatuses[h] = "DOWN"

\* shutdown, build-image, configure-control, wake, wait, configure-compute
BootstrapWithShutdown ==
    <<"compute_down", "control_build_image", "control_configure",
      "compute_up", "compute_wait", "compute_configure">>
BootstrapWithoutShutdown ==
    <<"control_build_image", "control_configure", "compute_up",
      "compute_wait", "compute_configure">>

\* C1: in the full bootstrap, with every configured node UP in the initial
\* probe the operations started after the probe are, in order and once each,
\* shutdown, build-image, configure-control, wake, wait, configure-compute;
\* with every node DOWN they are the same without shutdown.  At any moment
\* the operations started so far are the beginning of that sequence, and a
\* run that completes has started all of it.
C1_BootstrapOrder ==
    (command = "configure" /\ InitProbed) =>
        /\ InitAllUp =>
             /\ IsPrefix(steps, BootstrapWithShutdown)
             /\ (cc_ip >= 1 => Len(steps) >= 1)
             /\ (exitCode = 0 => steps = BootstrapWithShutdown)
        /\ InitAllDown =>
             /\ IsPrefix(steps, BootstrapWithoutShutdown)
             /\ (exitCode = 0 => steps = BootstrapWithoutShutdown)

C1_Witness ==
    /\ command = "configure"
    /\ InitAllUp
    /\ exitCode = 0
    /\ steps = BootstrapWithShutdown
    /\ Len(cmds) >= 6

\* The latest function to return was compute_wait, with success, after
\* probing.
WaitSucceeded == retval = RetZero /\ Nodes # <<>>
InWaitLoop == pc \in {"compute_wait_loop", "compute_wait_sleep"}

\* C2: when the probe reports not-all-UP k times (k < maxAttempts) and then
\* all-UP, compute_wait returns 0 after exactly k+1 probes and k sleeps and
\* probes no more: while it loops every probe so far has failed, and once it
\* has returned the counts stay k+1 and k.
C2_WaitSuccess ==
    /\ InWaitLoop =>
         /\ nfail = nprobes
         /\ nsleeps = i
         /\ nprobes = (IF pc = "compute_wait_sleep" THEN i + 1 ELSE i)
    /\ WaitSucceeded =>
         /\ nfail < MaxAttempts
         /\ nprobes = nfail + 1
         /\ nsleeps = nfail
         /\ ~InWaitLoop

C2_Witness ==
    /\ WaitSucceeded
    /\ nfail = MaxAttempts - 1
    /\ nprobes = MaxAttempts
    /\ nsleeps = MaxAttempts - 1

\* C3: when no probe reports every configured node UP, compute_wait issues
\* exactly maxAttempts probes, never returns success and ends the process
\* with status 1; the loop always terminates.
C3_Inv ==
    /\ nprobes <= MaxAttempts
    /\ fatalMsg.kind = "ReachabilityTimeout" =>
         /\ nprobes = MaxAttempts
         /\ nfail = MaxAttempts
         /\ pc = "exit"
         /\ exitCode = 1
    /\ nfail = MaxAttempts =>
         /\ retval # RetZero
         /\ pc \in {"compute_wait_sleep", "compute_wait_loop", "exit"}
         /\ pc = "exit" => (fatalMsg.kind = "ReachabilityTimeout" /\ exitCode = 1)

C3_Exhaustion == []C3_Inv /\ <>(pc = "exit")

C3_Witness ==
    /\ fatalMsg.kind = "ReachabilityTimeout"
    /\ nprobes = MaxAttempts
    /\ nfail = MaxAttempts
    /\ exitCode = 1

\* The configured nodes the latest probe found DOWN
DownInLastProbe == {h \in Names(Nodes) : all_statuses[h] = "DOWN"}

EmptyProfileLoaded ==
    /\ versionFile \in DOMAIN profileFiles
    /\ profileFiles[versionFile].compute_nodes = <<>>
    /\ pc \notin {"main", "load_hardware_config"}

\* C5: with a profile of zero compute nodes compute_wait returns 0 at once,
\* without a probe and without a sleep.
C5_EmptyProfileWait ==
    (EmptyProfileLoaded /\ waitCalls >= 1) =>
        /\ nprobes = 0
        /\ nsleeps = 0
        /\ probes = {}
        /\ ~InWaitLoop
        /\ fatalMsg.kind # "ReachabilityTimeout"
        /\ command = "compute wait" =>
             (retval = RetZero /\ pc \in {"main_end", "exit"} /\ exitCode # 1)

C5_Witness ==
    /\ EmptyProfileLoaded
    /\ command = "compute wait"
    /\ waitCalls = 1
    /\ retval = RetZero
    /\ exitCode = 0

ShutdownCmds == {"shutdown now", "shutdown -r now"}
ConfigureCmds == {"compute_configure.yml", "control_configure.yml",
                  "build_image.yml"}

\* C6: a non-zero exit of the command of compute_down / compute_restart
\* leaves the operation to complete normally; the same exit of the command
\* of compute_configure, control_configure or control_build_image leaves the
\* process ended by the CalledProcessError carrying that exit code.
C6_ExpectedFailure ==
    /\ (last.cmd \in ShutdownCmds /\ last.returncode # 0) =>
         /\ exc = NoExc
         /\ fatalMsg = NoMsg
         /\ exitCode # 1
         /\ pc # "exit" \/ exitCode = 0
    /\ (last.cmd \in ConfigureCmds /\ last.returncode # 0) =>
         /\ pc = "exit"
         /\ exitCode = 1
         /\ exc = [type |-> "CalledProcessError",
                   returncode |-> last.returncode, cmd |-> last.cmd]

C6_Witness ==
    /\ command = "compute down"
    /\ last.cmd = "shutdown now"
    /\ last.returncode # 0
    /\ pc = "exit"
    /\ exitCode = 0

\* The commands of the full bootstrap whose failure is fatal
BootstrapFatalCmds ==
    {"build_image.yml", "chown ~/.ansible", "control_configure.yml",
     "get_broadcast.yml", "wol_up.yml", "compute_configure.yml"}

JobDispatched ==
    \E k \in 1..Len(cmds) : cmds[k].cmd = "compute_configure.yml"

\* C7: in the full bootstrap a fatal failure of build-image,
\* configure-control, wake (its broadcast resolution and its wait included)
\* or wait ends the process there: no later step starts, and the
\* configure-compute job is not dispatched after it.
C7_AbortOnFailure ==
    command = "configure" =>
        /\ (last.cmd \in BootstrapFatalCmds /\ last.returncode # 0) =>
             (pc = "exit" /\ exitCode = 1)
        /\ (fatalMsg # NoMsg \/ exc # NoExc) => (pc = "exit" /\ exitCode = 1)
        /\ nfail = MaxAttempts =>
             (~JobDispatched /\ steps[Len(steps)] \in {"compute_up", "compute_wait"})
        /\ (JobDispatched /\ exitCode = 1) =>
             (last.cmd = "compute_configure.yml" /\ last.returncode # 0)
        /\ JobDispatched => steps[Len(steps)] = "compute_configure"

C7_Witness ==
    /\ command = "configure"
    /\ last.cmd = "control_configure.yml"
    /\ last.returncode # 0
    /\ pc = "exit"
    /\ steps[Len(steps)] = "control_configure"
    /\ ~JobDispatched

\* C8 as claimed: compute_configure invoked on its own checks reachability
\* before it dispatches the configuration job.
C8_VerifiesReachabilityFirst ==
    (command = "compute configure" /\ Nodes # <<>> /\ JobDispatched) =>
        (probes # {} /\ all_up(all_statuses))

\* C9: a configured node is UP in the returned map exactly when the output
\* has a success line for its name, and DOWN otherwise, whatever the exit
\* code of the batched command; the call never raises.
C9_Classification ==
    /\ pc # "exit"
    /\ pc = "returned" =>
         /\ exc = NoExc
         /\ Names(Nodes) \subseteq DOMAIN all_statuses
         /\ \A h \in Names(Nodes) :
               all_statuses[h] =
                   (IF ReportsSuccess(proc_in.stdout, h) THEN "UP" ELSE "DOWN")

C9_Witness ==
    /\ pc = "returned"
    /\ proc_in.returncode # 0
    /\ \E h \in Names(Nodes) : all_statuses[h] = "UP"
    /\ \E h \in Names(Nodes) : all_statuses[h] = "DOWN"

\* C10 as claimed: every command of an operation follows the global switch:
\* none goes through a remote shell when the switch is local, and each goes
\* to the control host when it is remote.
FollowsSwitch(via, host) ==
    IF remote
    THEN via = "ssh" /\ host = control_host(HARDWARE_CONFIG)
    ELSE via # "ssh"

C10_SingleSwitch ==
    /\ \A k \in 1..Len(cmds) :
          cmds[k].func # "main" => FollowsSwitch(cmds[k].via, cmds[k].host)
    /\ \A p \in probes : FollowsSwitch(p.via, p.host)

---------------------------------------------------------------------------
(* Properties of startup: loading, synthesis and staging *)

\* A profile is loaded (HARDWARE_CONFIG is not None).
Loaded == "none" \notin DOMAIN HARDWARE_CONFIG

\* main() loads the profile for this command: every verb but doc and
\* hardware, and not the bare invocation.
LoadsProfile == TopLevel(command) \notin {"doc", "hardware", NoCommand}

\* Commands an operation function dispatched (main's staging excluded)
OperationCmds == {k \in 1..Len(cmds) : cmds[k].func # "main"}
Dispatched == OperationCmds # {} \/ probes # {}

\* The selected function, or one it called, is running or has returned.
FunctionEntered == stack # <<>> \/ pc = "main_end" \/ Dispatched

StagingCmds == {"mkdir -p ~/remote", "rsync"}

\* C11 as claimed: a command runs in a remote shell on the control host only
\* after the staging sync of this invocation has succeeded, and a failed
\* sync ends the invocation before any operation command.
C11_SyncBeforeRemoteShell ==
    /\ \A k \in OperationCmds :
          (cmds[k].via = "ssh" /\ cmds[k].host = control_host(HARDWARE_CONFIG))
              => synced
    /\ \A p \in probes : p.via = "ssh" => synced
    /\ (exc.type = "CalledProcessError" /\ exc.cmd \in StagingCmds) =>
          (pc = "exit" /\ exitCode = 1 /\ ~Dispatched)

ConfigMissing == versionFile = NoFile \/ versionFile \notin DOMAIN profileFiles

---------------------------------------------------------------------------
(* Properties of the inventory synthesis *)

Synthesized == pc \in {"apply_generate_inventory_again", "returned"}

\* The lines of two words: the address lines
AddressLines(content) == SelectSeq(content, LAMBDA l : Len(l) = 2)

\* C14: the synthesized inventory opens with the group header, has exactly
\* one address line per configured node, line i carrying node i's name and
\* its resolved address, in list order, and ends with the group-variable
\* block whose login identity is the same for every profile.
C14_InventoryStructure ==
    Synthesized =>
        /\ inventory # <<>>
        /\ LET content == inventory[1]
               n == Len(Nodes)
           IN  /\ content[1] = <<"[compute]">>
               /\ Len(AddressLines(content)) = n
               /\ \A k \in 1..n :
                     content[k + 1] =
                         <<Nodes[k].name,
                           "ansible_host=" \o Render(Nodes[k].ip, varsFile)>>
               /\ \A k \in 1..Len(content) :
                     Len(content[k]) = 2 => k \in 2..(n + 1)
               /\ Len(content) >= n + 4
               /\ SubSeq(content, Len(content) - 2, Len(content)) =
                     << <<>>, <<"[compute:vars]">>, <<"ansible_user=compute">> >>

C14_Witness ==
    /\ pc = "returned"
    /\ Len(Nodes) >= 2
    /\ Nodes[1].ip # Nodes[2].ip
    /\ Len(inventory[1]) = Len(Nodes) + 4
    /\ inventory[1][2] = <<"node1", "ansible_host=10.0.0.11">>

\* C15: a synthesis leaves in the file the content determined by the current
\* profile and variables, whatever the file held, and a second synthesis
\* with the same profile and variables leaves the file as the first left it.
C15_Idempotence ==
    [][/\ pc = "apply_generate_inventory" =>
            inventory' = <<InventoryContent(HARDWARE_CONFIG, varsFile)>>
       /\ pc = "apply_generate_inventory_again" => inventory' = inventory]_vars

C15_Witness ==
    /\ pc = "returned"
    /\ Nodes # <<>>
    /\ inventory_before # <<>>
    /\ inventory_before # inventory
    /\ inventory = <<InventoryContent(HARDWARE_CONFIG, varsFile)>>

\* Some node's address template references a variable the dictionary lacks.
UndefinedReferenced ==
    \E k \in 1..Len(Nodes) : \E j \in 1..Len(Nodes[k].ip) :
        /\ Nodes[k].ip[j].kind = "var"
        /\ Nodes[k].ip[j].text \notin DOMAIN varsFile

\* C16 as claimed: when a node's address template references an undefined
\* variable the synthesis fails with TemplateResolutionError and writes no
\* inventory.
C16_TemplateResolutionError ==
    (Synthesized /\ UndefinedReferenced) =>
        /\ exc.type = "TemplateResolutionError"
        /\ inventory = inventory_before

---------------------------------------------------------------------------
(* Properties of wake *)

\* The line has the marker "msg": directly followed by a quoted field, the
\* text between the next two quote characters.
MarkerFields(segs) ==
    {j \in 2..(Len(segs) - 2) : segs[j] = "msg" /\ segs[j + 1] = ": "}

BroadcastJobReturned == last.cmd = "get_broadcast.yml" /\ last.returncode = 0

WakeDispatched == \E k \in 1..Len(cmds) : cmds[k].cmd = "wol_up.yml"

\* C17 as claimed: when the job's output has a line with the marker "msg":
\* followed by a quoted address, get_broadcast_address returns exactly that
\* address; when no line has the marker it ends the process with
\* BroadcastParseError and the wake command is never dispatched.
C17_BroadcastParsing ==
    BroadcastJobReturned =>
        /\ (\E k \in 1..Len(last.stdout) : MarkerFields(last.stdout[k]) # {}) =>
              \E k \in 1..Len(last.stdout) :
                 \E j \in MarkerFields(last.stdout[k]) :
                    /\ retval = last.stdout[k][j + 2]
                    /\ broadcast_address = last.stdout[k][j + 2]
        /\ (\A k \in 1..Len(last.stdout) : ~HasMarker(last.stdout[k])) =>
              /\ fatalMsg.kind = "BroadcastParseError"
              /\ pc = "exit"
              /\ exitCode = 1
              /\ ~WakeDispatched

\* C18: wake with a profile of no node (so no hardware address) returns
\* normally and does nothing: the broadcast address is not resolved, no
\* command is dispatched, no probe is issued and compute_wait is not entered.
C18_WakeNoOp ==
    EmptyProfileLoaded =>
        /\ \A k \in OperationCmds :
              cmds[k].func \notin {"get_broadcast_address", "compute_up"}
        /\ broadcast_address = NoVal
        /\ pc \notin {"get_broadcast_address", "compute_up_wol", "compute_up_end"}
        /\ command = "compute up" =>
              /\ OperationCmds = {}
              /\ probes = {}
              /\ waitCalls = 0
              /\ fatalMsg = NoMsg
              /\ pc = "exit" => (exitCode = 0 \/ exc.cmd \in StagingCmds)

C18_Witness ==
    /\ EmptyProfileLoaded
    /\ command = "compute up"
    /\ pc = "exit"
    /\ exitCode = 0
    /\ retval = NoVal
    /\ cmds = <<>>

---------------------------------------------------------------------------
(* Properties of status and of the probe inside the wait *)

\* The report has one entry per configured node, in profile order, each UP
\* or DOWN as the probe found it.
ReportsEachNodeOnce ==
    /\ Len(printed) = Len(Nodes)
    /\ \A k \in 1..Len(printed) :
          /\ printed[k].name = Nodes[k].name
          /\ printed[k].status \in {"UP", "DOWN"}
          /\ printed[k].status = all_statuses[Nodes[k].name]

StatusDone == pc = "main_end" \/ (pc = "exit" /\ exitCode = 0)

\* C19 as claimed: an invocation of status dispatches nothing but the
\* reachability probe, reports each configured node once, in profile order,
\* as UP or DOWN, and changes no state: no file and no remote tree.
C19_StatusReadOnly ==
    command = "compute status" =>
        /\ cmds = <<>>
        /\ inventory = inventory_before
        /\ ~synced
        /\ StatusDone => ReportsEachNodeOnce

\* C19: an invocation of status dispatches no operation command (no
\* shutdown, reboot, wake or configuration job): besides the staging of its
\* startup it issues one reachability probe at most, and it reports each
\* configured node once, in profile order, as UP or DOWN.  Its startup does
\* write the inventory file and, in remote mode, stages the project tree.
C19_StatusProbesOnly ==
    command = "compute status" =>
        /\ OperationCmds = {}
        /\ \A k \in 1..Len(cmds) : cmds[k].cmd \in StagingCmds
        /\ Cardinality(probes) <= 1
        /\ steps = <<>>
        /\ waitCalls = 0
        /\ broadcast_address = NoVal
        /\ printed # <<>> => ReportsEachNodeOnce
        /\ StatusDone =>
              /\ ReportsEachNodeOnce
              /\ inventory = <<InventoryContent(HARDWARE_CONFIG, varsFile)>>
              /\ synced = remote
              /\ (Nodes # <<>>) = (probes # {})

C19_Witness ==
    /\ command = "compute status"
    /\ remote
    /\ pc = "exit"
    /\ exitCode = 0
    /\ Len(printed) = 2
    /\ printed[1].status = "UP"
    /\ printed[2].status = "DOWN"
    /\ probes # {}

\* The probe command itself failed: a non-zero exit and no output at all.
ProbeCommandFailed == probe_proc.returncode # 0 /\ probe_proc.stdout = <<>>

\* C20 as claimed: compute_wait does not retry after a probe whose command
\* failed; the failure ends the wait as a command failure.
C20_ProbeFailureNotRetried ==
    (nprobes >= 1 /\ ProbeCommandFailed) =>
        /\ ~InWaitLoop
        /\ exc.type = "CalledProcessError"

---------------------------------------------------------------------------
(* Properties of the command executor and of the remote wrapper *)

\* C21: run_command with check=True raises the CalledProcessError that
\* carries the process's exit code and the command whenever that code is
\* not zero, and returns only when it is zero; with check=False it returns
\* for every exit code and hands the code back unchanged.
C21_FailureContract ==
    pc # "run_command" =>
        /\ last.returncode = proc_in.returncode
        /\ (check_in /\ proc_in.returncode # 0) =>
              /\ pc = "exit"
              /\ exc = [type |-> "CalledProcessError",
                        returncode |-> proc_in.returncode,
                        cmd |-> "args.command"]
        /\ (check_in /\ proc_in.returncode = 0) =>
              (pc = "returned" /\ exc = NoExc)
        /\ ~check_in => (pc = "returned" /\ exc = NoExc)

C21_Witness ==
    /\ pc = "returned"
    /\ ~check_in
    /\ proc_in.returncode = 255
    /\ last.returncode = 255
    /\ exc = NoExc

RemoteCommandRun ==
    \E k \in 1..Len(cmds) : cmds[k].cmd = "args.command" /\ cmds[k].via = "ssh"

\* C22: when remote.py reaches the remote command (the sync succeeded) its
\* own exit status is the remote command's, for every status; when the sync
\* fails it exits with status 1 and the remote command is never run.
C22_ExitCodePropagation ==
    /\ RemoteCommandRun => (synced /\ pc = "exit" /\ exitCode = proc_in.returncode)
    /\ (pc = "exit" /\ synced) => RemoteCommandRun
    /\ (last.cmd = "rsync" /\ last.returncode # 0) =>
          (pc = "exit" /\ exitCode = 1 /\ ~synced /\ ~RemoteCommandRun)

C22_Witness ==
    /\ pc = "exit"
    /\ synced
    /\ RemoteCommandRun
    /\ proc_in.returncode = 127
    /\ exitCode = 127

---------------------------------------------------------------------------
(* Properties of the steps of the full bootstrap and of wake *)

Started(step) == \E k \in 1..Len(steps) : steps[k] = step

InitAnyUp == \E h \in Names(Nodes) : initStatuses[h] = "UP"

IndexOfCmd(name) ==
    IF \E k \in 1..Len(cmds) : cmds[k].cmd = name
    THEN CHOOSE k \in 1..Len(cmds) :
            cmds[k].cmd = name /\ \A j \in 1..(k - 1) : cmds[j].cmd # name
    ELSE 0

\* C24: with at least one node, the wake command is dispatched only after
\* the broadcast address was resolved, and compute_wait is entered (and a
\* probe issued) only after the wake command returned success; a failure of
\* the resolution or of the wake command ends the process with status 1
\* and no probe is issued.
C24_WakeOrdering ==
    /\ WakeDispatched =>
          /\ broadcast_address # NoVal
          /\ IndexOfCmd("get_broadcast.yml") >= 1
          /\ IndexOfCmd("get_broadcast.yml") < IndexOfCmd("wol_up.yml")
    /\ (command \in {"compute up", "configure"} /\ Nodes # <<>> /\ waitCalls >= 1)
          => WakeDispatched
    /\ (command = "compute up" /\ Nodes # <<>>) =>
          /\ waitCalls >= 1 => (last.cmd = "wol_up.yml" /\ last.returncode = 0)
          /\ probes # {} => waitCalls >= 1
          /\ (/\ last.cmd = "get_broadcast.yml"
              /\ \/ last.returncode # 0
                 \/ parse_broadcast(last.stdout).kind # "ok") =>
                (pc = "exit" /\ exitCode = 1 /\ probes = {} /\ ~WakeDispatched)
          /\ (last.cmd = "wol_up.yml" /\ last.returncode # 0) =>
                (pc = "exit" /\ exitCode = 1 /\ probes = {} /\ waitCalls = 0)

C24_Witness ==
    /\ command = "compute up"
    /\ Nodes # <<>>
    /\ broadcast_address = "192.0.2.255"
    /\ last.cmd = "wol_up.yml"
    /\ last.returncode = 0
    /\ nprobes >= 1
    /\ exitCode = 0

\* C25: in the full bootstrap with at least one node the configure-compute
\* job is dispatched only when the wake command was dispatched before it and
\* the latest probe, issued by the wait that follows wake, reported every
\* configured node UP.
C25_ConfigureAfterAllUp ==
    (command = "configure" /\ Nodes # <<>> /\ JobDispatched) =>
        /\ WakeDispatched
        /\ IndexOfCmd("wol_up.yml") < IndexOfCmd("compute_configure.yml")
        /\ waitCalls = 2
        /\ nprobes >= 1
        /\ ReportsAllUp(HARDWARE_CONFIG, probe_proc.stdout)
        /\ \A h \in Names(Nodes) : all_statuses[h] = "UP"

C25_Witness ==
    /\ command = "configure"
    /\ Len(Nodes) >= 2
    /\ InitAllDown
    /\ JobDispatched
    /\ nfail >= 1
    /\ exitCode = 0

\* C26 as claimed: the keys of the map get_all_compute_node_statuses returns
\* are exactly the configured node names, whatever the output.
C26_KeySet ==
    pc = "returned" => DOMAIN all_statuses = Names(Nodes)

\* C27: in compute_wait every failed probe is followed by one sleep, the
\* last one included: between attempts sleeps and failures are equal, on
\* exhaustion there were maxAttempts probes and maxAttempts sleeps, and on
\* success after k failures there were k sleeps.
C27_SleepAfterEveryFailure ==
    /\ pc = "compute_wait_loop" => (nsleeps = nfail /\ nsleeps = nprobes)
    /\ pc = "compute_wait_sleep" => (nsleeps + 1 = nfail /\ nfail = nprobes)
    /\ fatalMsg.kind = "ReachabilityTimeout" =>
          (nsleeps = MaxAttempts /\ nprobes = MaxAttempts)
    /\ WaitSucceeded => (nsleeps = nfail /\ nprobes = nfail + 1)

C27_Witness ==
    /\ command = "compute up"
    /\ fatalMsg.kind = "ReachabilityTimeout"
    /\ nsleeps = MaxAttempts
    /\ nprobes = MaxAttempts
    /\ pc = "exit"

---------------------------------------------------------------------------
(* Properties of the hardware-version selector *)

C28_Selector ==
    /\ versionFile # NoFile => strip(versionFile) \in DOMAIN profileFiles
    /\ last_set # NoFile => versionFile = last_set
    /\ (command = "hardware set" /\ pc = "exit") =>
          IF version \in DOMAIN profileFiles
          THEN exitCode = 0 /\ versionFile = version /\ last_set = version
          ELSE exitCode = 1
    /\ (command = "hardware get" /\ pc = "exit" /\ last_set # NoFile) =>
          /\ exitCode = 0
          /\ printed = <<[name |-> last_set, status |-> "version"]>>

C28_SetStep ==
    (pc = "hardware_set" /\ pc' # pc) =>
        IF version \in DOMAIN profileFiles
        THEN versionFile' = version
        ELSE versionFile' = versionFile /\ exitCode' = 1 /\ pc' = "exit"

\* C28: hardware set overwrites the selector with the requested version
\* only if the profile file of that version exists, and otherwise ends with
\* status 1 and leaves the selector as it was; so, profile files never being
\* removed, the selector (if present) names an existing profile and hardware
\* get prints the version of the last successful set.
C28_SelectorIntegrity == []C28_Selector /\ [][C28_SetStep]_vars

C28_Witness ==
    /\ command = "hardware get"
    /\ pc = "exit"
    /\ exitCode = 0
    /\ last_set = "0.2"
    /\ "0.1" \in DOMAIN profileFiles
    /\ printed = <<[name |-> "0.2", status |-> "version"]>>

---------------------------------------------------------------------------
(* Properties of staging in remote mode and of the empty bootstrap *)

SyncCmds == {k \in 1..Len(cmds) : cmds[k].cmd = "rsync"}

OperationCmdNames ==
    LET ops == SelectSeq(cmds, LAMBDA e : e.func # "main")
    IN  [k \in 1..Len(ops) |-> ops[k].cmd]

EmptyBootstrapCmds ==
    <<"build_image.yml", "chown ~/.ansible", "control_configure.yml",
      "compute_configure.yml">>

\* C30: the full bootstrap on a profile of zero compute nodes issues no
\* probe and no shutdown, wakes nothing and waits for nothing, and runs
\* build-image, configure-control and the configure-compute job in that
\* order.
C30_EmptyProfileBootstrap ==
    (command = "configure" /\ EmptyProfileLoaded) =>
        /\ probes = {}
        /\ nprobes = 0
        /\ nsleeps = 0
        /\ ~Started("compute_down")
        /\ ~WakeDispatched
        /\ broadcast_address = NoVal
        /\ IsPrefix(steps, BootstrapWithoutShutdown)
        /\ IsPrefix(OperationCmdNames, EmptyBootstrapCmds)
        /\ JobDispatched => OperationCmdNames = EmptyBootstrapCmds
        /\ exitCode = 0 =>
              /\ steps = BootstrapWithoutShutdown
              /\ OperationCmdNames = EmptyBootstrapCmds

C30_Witness ==
    /\ command = "configure"
    /\ EmptyProfileLoaded
    /\ remote
    /\ exitCode = 0
    /\ waitCalls = 1
    /\ steps = BootstrapWithoutShutdown
    /\ OperationCmdNames = EmptyBootstrapCmds

---------------------------------------------------------------------------
(* src/cluster.py: the earlier orchestrator.  It has no hardware profile:
   the inventory is made from the DHCP lease file of the control host, every
   remote command is preceded by its own rsync, and every command is run
   with check=True. *)

\* range(10) of compute_wait
OldMaxAttempts == 10

\* The lease file: one line per lease (expiry, MAC, address, host name), or
\* a line too short to be a lease
LeaseFiles ==
    {[k \in 1..n |-> <<"expiry", NodeMacs[k], "10.0.0" \o NodeSuffix[k],
                       NodeNames[k]>>] : n \in 0..MaxNodes}
    \cup {<< <<"expiry", "aa:00">> >>}

\* parts = line.split(); len(parts) >= 4: hosts.append(parts[2])
RECURSIVE lease_hosts(_)
lease_hosts(lines) ==
    IF lines = <<>> THEN <<>>
    ELSE (IF Len(Head(lines)) >= 4 THEN << <<Head(lines)[3]>> >> ELSE <<>>)
         \o lease_hosts(Tail(lines))

\* run_command of src/cluster.py: in remote mode the rsync, then the command
\* through ssh; both with check=True, so either raises CalledProcessError.
\* `entries` are the commands dispatched, `failed` the one that raised.
old_run_command(func, cmd, rem, sync, result) ==
    LET ran == ~rem \/ sync.returncode = 0
        rc == IF ran THEN result.returncode ELSE sync.returncode
        host == IF rem THEN "control" ELSE LocalHost
        via == IF rem THEN "ssh" ELSE "local"
        failed == IF ran THEN cmd ELSE "rsync"
        staged == IF rem
                  THEN <<[func |-> func, cmd |-> "rsync", via |-> "rsync",
                          host |-> host]>>
                  ELSE <<>>
        issued == IF ran
                  THEN <<[func |-> func, cmd |-> cmd, via |-> via,
                          host |-> host]>>
                  ELSE <<>>
    IN  [cmd        |-> cmd,
         via        |-> via,
         host       |-> host,
         entries    |-> staged \o issued,
         synced     |-> rem /\ sync.returncode = 0,
         returncode |-> rc,
         stdout     |-> IF ran THEN result.stdout ELSE <<>>,
         failed     |-> failed,
         raised     |-> rc # 0,
         last       |-> [cmd |-> failed, returncode |-> rc,
                         stdout |-> IF ran THEN result.stdout ELSE <<>>,
                         check |-> TRUE, raised |-> rc # 0]]

\* generate_inventory(remote): the lease file is read through run_command
\* (remote) or opened (local); a failure of either is logged and ends the
\* process; otherwise the inventory is written from the leases.
old_generate_inventory(rem, sync, result, exists, lease) ==
    LET proc == old_run_command("generate_inventory", "cat dnsmasq.leases",
                                TRUE, sync,
                                [returncode |-> result.returncode,
                                 stdout |-> lease])
    IN  [failed  |-> IF rem THEN proc.raised ELSE ~exists,
         entries |-> IF rem THEN proc.entries ELSE <<>>,
         synced  |-> rem /\ proc.synced,
         last    |-> IF rem THEN proc.last ELSE last,
         content |-> << <<"[compute]">> >>
                     \o Joined(lease_hosts(lease))
                     \o << <<>>, <<"[compute:vars]">>, <<"ansible_user=root">> >>]

\* What the lease file and the commands that read it can be: cat of an
\* absent file fails.
LeaseReads ==
    {r \in [exists : BOOLEAN, lease : LeaseFiles, sync : Plain,
            result : Plain] :
        ~r.exists => (r.lease = <<>> /\ r.result.returncode # 0)}

\* Step 1 to step 4 of cluster_configure
OldCCSequence ==
    <<"control_configure", "compute_restart", "compute_wait",
      "compute_configure">>

OldInit ==
    /\ command \in {"configure", "control configure", "compute restart",
                    "compute wait", "compute configure"}
    /\ remote \in BOOLEAN
    /\ test_remote = FALSE
    /\ node_index = 0
    /\ version = "0.1"
    /\ proc_in = NoResult
    /\ check_in = TRUE
    /\ versionFile = NoFile
    /\ profileFiles = [v \in {} |-> NoConfig]
    /\ varsFile = ansible_vars
    /\ inventory_before = <<>>
    /\ HARDWARE_CONFIG = NoConfig
    /\ pc = "old_main"
    /\ InitRest

oldFrame == <<argVars, fileVars, HARDWARE_CONFIG, all_statuses, initStatuses,
              compute_nodes_up, printed, broadcast_address>>

\* args.func(args)
old_main ==
    /\ pc = "old_main"
    /\ Call(CASE command = "configure" -> "old_cluster_configure"
              [] command = "control configure" -> "old_control_configure"
              [] command = "compute restart" -> "old_compute_restart"
              [] command = "compute wait" -> "old_compute_wait"
              [] OTHER -> "old_compute_configure",
            "main_end")
    /\ UNCHANGED <<oldFrame, inventory, synced, cmdVars, probes, probe_proc,
                   waitVars, steps, cc_ip>>

\* A variant of cluster_configure without the try/except.
OldRaise_Propagates(proc) ==
    Uncaught("CalledProcessError", proc.returncode, proc.failed)

\* CalledProcessError leaves the function.  When the caller is
\* cluster_configure inside `try: compute_restart(args)`, its except clause
\* logs it and goes on with the next step; otherwise nothing catches it.
OldRaise(proc) ==
    IF /\ stack # <<>>
       /\ Head(stack) = "old_cluster_configure"
       /\ cc_ip \in 1..Len(OldCCSequence)
       /\ OldCCSequence[cc_ip] = "compute_restart"
    THEN Return(NoVal)
    ELSE Uncaught("CalledProcessError", proc.returncode, proc.failed)

old_control_configure ==
    /\ pc = "old_control_configure"
    /\ \E sync \in Plain, result \in Plain :
         LET proc == old_run_command("control_configure",
                                     "control_configure.yml", remote, sync,
                                     result)
         IN  /\ cmds' = cmds \o proc.entries
             /\ last' = proc.last
             /\ synced' = (synced \/ proc.synced)
             /\ IF proc.raised THEN OldRaise(proc) ELSE Return(NoVal)
    /\ UNCHANGED <<oldFrame, inventory, probes, probe_proc, waitVars, steps,
                   cc_ip>>

\* generate_inventory(args.remote), then the reboot command
old_compute_restart ==
    /\ pc = "old_compute_restart"
    /\ \E r \in LeaseReads, sync \in Plain, result \in Plain :
         LET gi == old_generate_inventory(remote, r.sync, r.result, r.exists,
                                          r.lease)
             proc == old_run_command("compute_restart", "shutdown -r now",
                                     remote, sync, result)
         IN  IF gi.failed
             THEN /\ cmds' = cmds \o gi.entries
                  /\ last' = gi.last
                  /\ synced' = (synced \/ gi.synced)
                  /\ UNCHANGED inventory
                  /\ SysExit(1, "LeaseFileUnreadable", {})
             ELSE /\ cmds' = cmds \o gi.entries \o proc.entries
                  /\ last' = proc.last
                  /\ synced' = (synced \/ gi.synced \/ proc.synced)
                  /\ inventory' = write_file(inventory, gi.content)
                  /\ IF proc.raised THEN OldRaise(proc) ELSE Return(NoVal)
    /\ UNCHANGED <<oldFrame, probes, probe_proc, waitVars, steps, cc_ip>>

\* compute_wait up to the loop: generate_inventory(args.remote)
old_compute_wait ==
    /\ pc = "old_compute_wait"
    /\ waitCalls' = waitCalls + 1
    /\ i' = 0
    /\ nprobes' = 0
    /\ nsleeps' = 0
    /\ nfail' = 0
    /\ attemptMsg' = NoMsg
    /\ \E r \in LeaseReads :
         LET gi == old_generate_inventory(remote, r.sync, r.result, r.exists,
                                          r.lease)
         IN  /\ cmds' = cmds \o gi.entries
             /\ last' = gi.last
             /\ synced' = (synced \/ gi.synced)
             /\ IF gi.failed
                THEN /\ UNCHANGED inventory
                     /\ SysExit(1, "LeaseFileUnreadable", {})
                ELSE /\ inventory' = write_file(inventory, gi.content)
                     /\ Goto("old_compute_wait_loop")
    /\ UNCHANGED <<oldFrame, probes, probe_proc, steps, cc_ip>>

\* One iteration of `for i in range(10)` up to the sleep: the group ping
\* succeeds and compute_wait returns 0, or CalledProcessError is caught.
old_compute_wait_attempt ==
    /\ pc = "old_compute_wait_loop"
    /\ i < OldMaxAttempts
    /\ \E sync \in Plain, result \in Plain :
         LET proc == old_run_command("compute_wait", "ansible compute -m ping",
                                     remote, sync, result)
         IN  /\ LogProbe(proc)
             /\ synced' = (synced \/ proc.synced)
             /\ nprobes' = nprobes + 1
             /\ IF proc.raised
                THEN /\ nfail' = nfail + 1
                     /\ attemptMsg' = [kind |-> "attempt", attempt |-> i + 1,
                                       names |-> {}]
                     /\ Goto("old_compute_wait_sleep")
                ELSE /\ UNCHANGED <<nfail, attemptMsg>>
                     /\ Return(RetZero)
    /\ UNCHANGED <<oldFrame, inventory, cmdVars, i, nsleeps, waitCalls, steps,
                   cc_ip>>

\* time.sleep(5), then the next value of i
old_compute_wait_sleep ==
    /\ pc = "old_compute_wait_sleep"
    /\ nsleeps' = nsleeps + 1
    /\ i' = i + 1
    /\ Goto("old_compute_wait_loop")
    /\ UNCHANGED <<oldFrame, inventory, synced, cmdVars, probes, probe_proc,
                   nprobes, nfail, waitCalls, attemptMsg, steps, cc_ip>>

\* The range is exhausted: logging.error(...); sys.exit(1)
old_compute_wait_exhausted ==
    /\ pc = "old_compute_wait_loop"
    /\ ~(i < OldMaxAttempts)
    /\ SysExit(1, "ReachabilityTimeout", {})
    /\ UNCHANGED <<oldFrame, inventory, synced, cmdVars, probes, probe_proc,
                   waitVars, steps, cc_ip>>

\* compute_configure: compute_wait(args) first
old_compute_configure ==
    /\ pc = "old_compute_configure"
    /\ Call("old_compute_wait", "old_compute_configure_run")
    /\ UNCHANGED <<oldFrame, inventory, synced, cmdVars, probes, probe_proc,
                   waitVars, steps, cc_ip>>

\* if compute_wait(args) != 0: sys.exit(1); then the playbook
old_compute_configure_run ==
    /\ pc = "old_compute_configure_run"
    /\ IF retval # RetZero
       THEN /\ SysExit(1, "NotUp", {})
            /\ UNCHANGED <<cmdVars, synced>>
       ELSE \E sync \in Plain, result \in Plain :
              LET proc == old_run_command("compute_configure",
                                          "compute_configure.yml", remote,
                                          sync, result)
              IN  /\ cmds' = cmds \o proc.entries
                  /\ last' = proc.last
                  /\ synced' = (synced \/ proc.synced)
                  /\ IF proc.raised THEN OldRaise(proc) ELSE Return(NoVal)
    /\ UNCHANGED <<oldFrame, inventory, probes, probe_proc, waitVars, steps,
                   cc_ip>>

\* cluster_configure: the next of its four calls, or the return
old_cluster_configure ==
    /\ pc = "old_cluster_configure"
    /\ IF cc_ip < Len(OldCCSequence)
       THEN /\ steps' = Append(steps, OldCCSequence[cc_ip + 1])
            /\ cc_ip' = cc_ip + 1
            /\ Call("old_" \o OldCCSequence[cc_ip + 1], "old_cluster_configure")
       ELSE /\ UNCHANGED <<steps, cc_ip>>
            /\ Return(NoVal)
    /\ UNCHANGED <<oldFrame, inventory, synced, cmdVars, probes, probe_proc,
                   waitVars>>

OldNext ==
    \/ old_main
    \/ old_cluster_configure
    \/ old_control_configure
    \/ old_compute_restart
    \/ old_compute_wait
    \/ old_compute_wait_attempt
    \/ old_compute_wait_sleep
    \/ old_compute_wait_exhausted
    \/ old_compute_configure
    \/ old_compute_configure_run
    \/ main_end

OldSpec == OldInit /\ [][OldNext]_vars

---------------------------------------------------------------------------
(* Properties of the earlier orchestrator's full configuration *)

\* The commands a function dispatched, in order (its rsyncs included)
CmdsOf(func) == SelectSeq(cmds, LAMBDA e : e.func = func)
LastFunc == IF cmds = <<>> THEN "" ELSE cmds[Len(cmds)].func
OldPlaybookDispatched ==
    \E k \in 1..Len(cmds) : cmds[k].cmd = "compute_configure.yml"

C31_Order ==
    command = "configure" =>
        /\ IsPrefix(steps, OldCCSequence)
        /\ (LastFunc = "control_configure" /\ last.raised) =>
              /\ pc = "exit"
              /\ exitCode = 1
              /\ exc.type = "CalledProcessError"
              /\ steps = <<"control_configure">>
        /\ Len(steps) >= 2 =>
              \E k \in 1..Len(cmds) :
                  /\ cmds[k].cmd = "control_configure.yml"
                  /\ \A j \in 1..Len(cmds) :
                        cmds[j].func = "compute_restart" => k < j
        /\ (LastFunc = "compute_configure"
            \/ pc = "old_compute_configure_run") =>
              /\ steps = OldCCSequence
              /\ waitCalls = 2
              /\ nprobes \in 1..OldMaxAttempts
              /\ nfail = nprobes - 1
              /\ probe_proc.returncode = 0
        /\ fatalMsg.kind = "ReachabilityTimeout" =>
              /\ pc = "exit"
              /\ exitCode = 1
              /\ nprobes = OldMaxAttempts
              /\ nfail = OldMaxAttempts
              /\ ~OldPlaybookDispatched
        /\ (pc = "exit" /\ ~OldPlaybookDispatched) => exitCode = 1

\* The reboot command of step 2 raised: step 3 is what comes next.
C31_RebootStep ==
    (/\ command = "configure"
     /\ pc = "old_compute_restart"
     /\ pc' # pc
     /\ cmds'[Len(cmds')].func = "compute_restart"
     /\ last'.raised) =>
        /\ pc' = "old_cluster_configure"
        /\ exc' = NoExc
        /\ exitCode' = Running
        /\ cc_ip' = 2

\* C31: in the earlier orchestrator cluster_configure starts
\* control-configure, reboot, wait and configure-compute in that order; a
\* CalledProcessError of the reboot command is tolerated and the wait comes
\* next, one of control-configure ends the process before the reboot, and
\* the configure-compute playbook is dispatched only when the latest group
\* ping, one of at most 10, succeeded; when the 10 attempts fail the process
\* ends with status 1 and no playbook.
C31_OldBootstrap == []C31_Order /\ [][C31_RebootStep]_vars

C31_Witness ==
    /\ command = "configure"
    /\ remote
    /\ steps = OldCCSequence
    /\ CmdsOf("compute_restart")
         = <<[func |-> "compute_restart", cmd |-> "rsync", via |-> "rsync",
              host |-> "control"]>>
    /\ OldPlaybookDispatched
    /\ nfail >= 1
    /\ exitCode = 0

====
